---------------------------- MODULE Spec2Model ----------------------------
(***************************************************************************)
(* A model of the structured-warrant pipeline of idx-bei and of two of its *)
(* other scrapers:                                                         *)
(*   python/scrape_structured_warrants.py  (the lister and its date filter)*)
(*   python/scrape_sw_combined.py          (the combiner, its metrics and  *)
(*                                          the orchestrator main)         *)
(*   python/scrape_underlying_ohlc.py      (the OHLC fetcher)              *)
(*   python/scrape_warrant_prices.py       (the price fetcher)             *)
(*   python/scrape_financial_ratio.py      (the paginated ratio scraper)   *)
(*   python/scrape_company_profiles.py     (the incremental detail scraper)*)
(*                                                                         *)
(* JSON values are tagged records: JNull, JNum(n), JStr(s) with s a        *)
(* sequence of one-character strings, and Missing for a key that a dict    *)
(* does not hold.  Money is in whole rupiah; a value that the code rounds  *)
(* to 2 (or 4) decimals is held as an integer number of hundredths (or     *)
(* ten-thousandths).  Time is counted in half days: 2*d is midnight of day *)
(* d and 2*d+1 is some later moment of day d.                              *)
(***************************************************************************)
EXTENDS Integers, Sequences, FiniteSets, TLC

VARIABLES
    now,            \* the wall clock (datetime.now())
    swFile,         \* data/structured_warrants.json
    ohlcFile,       \* data/underlying_ohlc.json
    pricesFile,     \* data/warrant_prices.json
    combinedFile,   \* data/structured_warrants_combined.json
    \* scrape_structured_warrants()
    lpc,            \* where the lister is: "loop", "sleep", "done", "crashed"
    retries,        \* its local retries
    data,           \* its local data: what fetch_data returned last
    lsaved,         \* whether this call wrote swFile
    lfilterTime,    \* current_date of the filter of this call
    ltrace,         \* what its loop did so far: "a" an attempt that got the data,
                    \* "r" an attempt that failed and may be retried, "f" an
                    \* attempt that failed for good, "s" a sleep
    \* combine_data()
    combineCalls,   \* how many calls have returned
    combineResult,  \* what the last call returned
    combineSaved,   \* what save_json did in the last call: "none" (not called),
                    \* "saved" or "ioerror"
    \* the loop body of combine_data on one record
    jrecord, johlcMap, jpricesMap, jenriched,
    \* scrape_underlying_ohlc(ticker_codes)
    otickers,       \* ticker_codes
    opc,            \* "loop", "done"
    oacc,           \* its locals ohlc_map, success_count and fail_count
    otraces,        \* per ticker done, what fetch_ohlc did, as in ltrace
    oresult,        \* what the call returned
    osaved,         \* what save_json did: "none", "saved" or "ioerror"
    \* scrape_warrant_prices()
    ppc,            \* "fetch" while fetch_data runs, "done" once the function returned
    pattempt,       \* attempt of its fetch_data
    ptrace,         \* what fetch_data did, as in ltrace
    pdata,          \* its local data: what fetch_data returned
    presult,        \* what the call returned
    \* main() of scrape_sw_combined.py
    mpc,            \* the stage main is about to run, "exit" once the process ended
    exitCode,       \* the exit code of the process, -1 while it runs
    mstages,        \* the stages main ran after the lister, in order
    mlisted,        \* whether the lister of this run got data from the endpoint
    \* scrape_financial_data()
    ratioFile,      \* data/financial_ratio.json
    fpc,            \* "fetch", "delay" (after a page), "wait" (after a 429), "save", "done"
    page_number,    \* its local page_number
    all_data,       \* its local all_data
    frequests,      \* requests made for page_number so far, counted up to MaxCount
    \* combine_data() step by step
    wpc,            \* "start", "loop", "save", "dump", "returned", "raised"
    wacc,           \* the accumulators of the loop
    wtodo,          \* the listing records the loop has not joined yet
    wcombined,      \* the dict of lines 200-218 once built
    wflushed,       \* records of the dump that reached the file
    wopens,         \* how often the call opened the combined file for writing
    \* scrape_company_data()
    allCompaniesFile,       \* data/allCompanies.json
    detailsFile,            \* data/companyDetailsByKodeEmiten.json
    cpc,                    \* "start", "loop", "delay" (after a save), "sleep"
                            \* (after an error), "done"
    companies_to_process,   \* its local companies_to_process
    cindex,                 \* the position of the loop in it, from 1
    kode_emiten_json,       \* its local kode_emiten_json
    cstored,                \* what the run loaded from detailsFile at its start
    cfetches,               \* the detail fetches of all runs so far, in order:
                            \* the code, whether details came, the run
    cruns                   \* the runs started so far

fileVars    == <<swFile, ohlcFile, pricesFile, combinedFile>>
listerVars  == <<lpc, retries, data, lsaved, lfilterTime, ltrace>>
combineVars == <<combineCalls, combineResult, combineSaved>>
joinVars    == <<jrecord, johlcMap, jpricesMap, jenriched>>
ohlcVars    == <<otickers, opc, oacc, otraces, oresult, osaved>>
pricesVars  == <<ppc, pattempt, ptrace, pdata, presult>>
mainVars    == <<mpc, exitCode, mstages, mlisted>>
ratioVars   == <<ratioFile, fpc, page_number, all_data, frequests>>
stepVars    == <<wpc, wacc, wtodo, wcombined, wflushed, wopens>>
companyVars == <<allCompaniesFile, detailsFile, cpc, companies_to_process, cindex,
                 kode_emiten_json, cstored, cfetches, cruns>>
pipelineVars == <<now, fileVars, listerVars, combineVars, joinVars, ohlcVars,
                  pricesVars, mainVars, ratioVars, stepVars>>
vars        == <<pipelineVars, companyVars>>

----------------------------------------------------------------------------
(* Bounds of the model *)

MaxDay     == 2   \* trading dates are days 1..MaxDay
MaxRecords == 2   \* records in a listing
MaxCalls   == 2   \* calls of combine_data in one behaviour
MaxPages   == 2   \* pages of financial ratios the endpoint holds
MaxCount   == 3   \* requests for one page are counted up to this, then "many"
MaxRuns    == 2   \* runs of scrape_company_data in one behaviour

(* Program constants *)

MAX_RETRIES == 3

----------------------------------------------------------------------------
(* JSON values and Python's view of them *)

JNull    == [t |-> "null"]
Missing  == [t |-> "missing"]
JNum(n)  == [t |-> "num", v |-> n]
JStr(s)  == [t |-> "str", v |-> s]
None     == JNull
Absent   == [t |-> "absent"]          \* a file that does not exist

\* dict.get(key, default) on a record whose absent keys hold Missing
Get(rec, key, default) == IF rec[key] = Missing THEN default ELSE rec[key]

\* bool(v) of a JSON value
Truthy(v) ==
    CASE v.t = "null"    -> FALSE
      [] v.t = "missing" -> FALSE
      [] v.t = "num"     -> v.v # 0
      [] v.t = "str"     -> Len(v.v) > 0
      [] OTHER           -> TRUE

Min(a, b) == IF a <= b THEN a ELSE b

RECURSIVE SeqsUpTo(_, _)
SeqsUpTo(S, n) ==
    IF n = 0 THEN {<<>>}
    ELSE LET shorter == SeqsUpTo(S, n - 1)
         IN  shorter \cup {Append(s, x) : s \in {q \in shorter : Len(q) = n - 1}, x \in S}

----------------------------------------------------------------------------
(* scrape_structured_warrants.py *)

\* A date string is its date text followed by a tail: date is the day the text
\* names (0: the text names no date), tail is "" or the literal "T00:00:00".
DateStr(d, tl) == JStr([date |-> d, tail |-> tl])

\* str.replace('T00:00:00', '')
StripMidnight(s) == IF s.tail = "T00:00:00" THEN [s EXCEPT !.tail = ""] ELSE s

\* datetime.fromisoformat(s): the moment, or ValueError
IsoValid(s)      == s.date >= 1 /\ s.tail = ""
FromIsoFormat(s) == 2 * s.date

\* record[key].replace('T00:00:00', '') then fromisoformat, lines 124-125:
\* "KeyError" for an absent key, "AttributeError" for a value that is no
\* string, "ValueError" for a string that is no date, else "ok".
ParseOutcome(record, key) ==
    CASE record[key] = Missing    -> "KeyError"
      [] record[key].t # "str"    -> "AttributeError"
      [] ~IsoValid(StripMidnight(record[key].v)) -> "ValueError"
      [] OTHER                    -> "ok"

ParsedDate(record, key) == FromIsoFormat(StripMidnight(record[key].v))

\* The mutant of InWindow: the upper end of the window taken as inclusive.
InWindowInclusive(first, current, last) == first <= current /\ current <= last

\* first_trading_date <= current_date < last_trading_date, line 128
InWindow(first, current, last) == first <= current /\ current < last

\* One pass of the loop body, lines 123-132: "keep" (appended), "drop"
\* (parsed, outside the window), "skip" (ValueError or KeyError caught),
\* "raise" (any other exception, which nothing catches).
FilterOutcome(record, current) ==
    LET f == ParseOutcome(record, "FirstTradingDate")
        l == ParseOutcome(record, "LastTradingDate")
    IN  CASE f = "AttributeError"             -> "raise"
          [] f \in {"KeyError", "ValueError"} -> "skip"
          [] l = "AttributeError"             -> "raise"
          [] l \in {"KeyError", "ValueError"} -> "skip"
          [] InWindow(ParsedDate(record, "FirstTradingDate"), current,
                      ParsedDate(record, "LastTradingDate")) -> "keep"
          [] OTHER                            -> "drop"

FilterRaises(all_records, current) ==
    \E i \in 1..Len(all_records) : FilterOutcome(all_records[i], current) = "raise"

ActiveRecords(all_records, current) ==
    LET Kept(r) == FilterOutcome(r, current) = "keep"
    IN  SelectSeq(all_records, Kept)

\* A file that holds the beginning of a JSON document and not its end
Truncated == [t |-> "truncated"]

\* How open(file_path, 'w') and json.dump may end: both succeed, open raises
\* IOError, or a write raises IOError after open has emptied the file.
IoOutcomes == {"ok", "open_failed", "write_failed"}

\* save_json: the file after the call.  The IOError is caught and printed.
save_json(old, content, io) ==
    CASE io = "ok"          -> content
      [] io = "open_failed" -> old
      [] OTHER              -> Truncated

\* fetch_data, lines 32-65, on one response of the endpoint: a value returned,
\* or the RequestsError of a 429 raised to the caller.
fetch_data(resp) ==
    CASE resp.kind = "neterr"     -> [raised |-> FALSE, value |-> None]
      [] resp.status = 429        -> [raised |-> TRUE,  value |-> None]
      [] resp.status # 200        -> [raised |-> FALSE, value |-> None]
      [] resp.body.t = "garbled"  -> [raised |-> FALSE, value |-> None]
      [] OTHER                    -> [raised |-> FALSE, value |-> resp.body]

\* data and data.get('Results'), lines 98 and 115
HasResults(d) == Truthy(d) /\ d.t = "dict" /\ Len(d.Results) > 0

\* The inputs: the listing records the endpoint may return.
GoodDates == {[first |-> DateStr(d1, tl), last |-> DateStr(d2, tl)] :
                 d1 \in 1..MaxDay, d2 \in 1..MaxDay, tl \in {"", "T00:00:00"}}
BadDates  == {DateStr(0, ""), Missing, JNull}
ListerRecords ==
    {[FirstTradingDate |-> g.first, LastTradingDate |-> g.last] : g \in GoodDates}
    \cup {[FirstTradingDate |-> b, LastTradingDate |-> DateStr(MaxDay, "")] : b \in BadDates}
    \cup {[FirstTradingDate |-> DateStr(1, ""), LastTradingDate |-> b] : b \in BadDates}
Listings  == SeqsUpTo(ListerRecords, MaxRecords)
Responses ==
    {[kind |-> "neterr"]}
    \cup {[kind |-> "http", status |-> s, body |-> [t |-> "garbled"]] : s \in {200, 429, 503}}
    \cup {[kind |-> "http", status |-> 200, body |-> [t |-> "dict", Results |-> l]] : l \in Listings}

MaxTime   == 2 * MaxDay + 1
StaleSw   == [totalRecords |-> 0, filteredDate |-> 0, data |-> <<>>]

ListerInit ==
    /\ lpc = "loop" /\ retries = 0 /\ data = None
    /\ lsaved = FALSE /\ lfilterTime = 0 /\ ltrace = <<>>

\* Lines 115-152, after the loop: filter, save.
\* The mutant of LAfterLoop: a call that got no data writes an empty listing.
LAfterLoopEmptying(d, io) ==
    IF HasResults(d)
    THEN IF FilterRaises(d.Results, now)
         THEN /\ lpc' = "crashed"
              /\ UNCHANGED <<swFile, lsaved, lfilterTime>>
         ELSE LET active_records == ActiveRecords(d.Results, now)
                  combined_data  == [totalRecords |-> Len(active_records),
                                     filteredDate |-> now \div 2,
                                     data         |-> active_records]
              IN  /\ swFile' = save_json(swFile, combined_data, io)
                  /\ lsaved' = (io = "ok")
                  /\ lfilterTime' = now
                  /\ lpc' = "done"
    ELSE /\ lpc' = "done"
         /\ swFile' = save_json(swFile, [totalRecords |-> 0,
                                         filteredDate |-> now \div 2,
                                         data         |-> <<>>], io)
         /\ UNCHANGED <<lsaved, lfilterTime>>

LAfterLoop(d, io) ==
    IF HasResults(d)
    THEN IF FilterRaises(d.Results, now)
         THEN /\ lpc' = "crashed"
              /\ UNCHANGED <<swFile, lsaved, lfilterTime>>
         ELSE LET active_records == ActiveRecords(d.Results, now)
                  combined_data  == [totalRecords |-> Len(active_records),
                                     filteredDate |-> now \div 2,
                                     data         |-> active_records]
              IN  /\ swFile' = save_json(swFile, combined_data, io)
                  /\ lsaved' = (io = "ok")
                  /\ lfilterTime' = now
                  /\ lpc' = "done"
    ELSE /\ lpc' = "done"
         /\ UNCHANGED <<swFile, lsaved, lfilterTime>>

\* Lines 100-104 and 106-110: count the retry, then sleep or leave the loop.
LRetry(d, io) ==
    /\ retries' = retries + 1
    /\ data' = d
    /\ IF retries + 1 <= MAX_RETRIES
       THEN /\ lpc' = "sleep"
            /\ UNCHANGED <<swFile, lsaved, lfilterTime>>
       ELSE LAfterLoop(d, io)

\* One pass of the while loop, lines 93-113, and what follows the loop when
\* the pass leaves it, over the answers the endpoint may give.
LAttemptOn(responses) ==
    /\ lpc = "loop" /\ retries <= MAX_RETRIES
    /\ \E resp \in responses, io \in IoOutcomes :
          LET r == fetch_data(resp)
          IN  IF r.raised
              THEN /\ LRetry(data, io)
                   /\ ltrace' = Append(ltrace, "r")
              ELSE IF HasResults(r.value)
                   THEN /\ data' = r.value
                        /\ retries' = retries
                        /\ LAfterLoop(r.value, io)
                        /\ ltrace' = Append(ltrace, "a")
                   ELSE /\ LRetry(r.value, io)
                        /\ ltrace' = Append(ltrace, "r")
    /\ UNCHANGED <<now, ohlcFile, pricesFile, combinedFile, combineVars, joinVars,
                   ohlcVars, pricesVars, mainVars, ratioVars, stepVars,
                   companyVars>>

LAttempt == LAttemptOn(Responses)

\* time.sleep(RATE_LIMIT_SLEEP_SECONDS), lines 104 and 110
LSleep ==
    /\ lpc = "sleep"
    /\ lpc' = "loop"
    /\ \E dt \in {0, 1} : now' = Min(now + dt, MaxTime)
    /\ ltrace' = Append(ltrace, "s")
    /\ UNCHANGED <<fileVars, retries, data, lsaved, lfilterTime, combineVars, joinVars,
                   ohlcVars, pricesVars, mainVars, ratioVars, stepVars,
                   companyVars>>

----------------------------------------------------------------------------
(* scrape_sw_combined.py: parse_exercise_ratio and calculate_warrant_metrics *)

\* Text is a sequence of one-character strings.
Digits == <<"0", "1", "2", "3", "4", "5", "6", "7", "8", "9">>
IsDigit(c)  == \E i \in 1..10 : Digits[i] = c
DigitVal(c) == (CHOOSE i \in 1..10 : Digits[i] = c) - 1

\* str.split(':')
RECURSIVE Split(_)
Split(s) ==
    IF \A i \in 1..Len(s) : s[i] # ":"
    THEN <<s>>
    ELSE LET i == CHOOSE k \in 1..Len(s) :
                     s[k] = ":" /\ \A m \in 1..(k - 1) : s[m] # ":"
         IN  <<SubSeq(s, 1, i - 1)>> \o Split(SubSeq(s, i + 1, Len(s)))

\* float(text) for decimal text [sign] digits [. digits]: whether it parses
\* (else ValueError) and its value as the fraction n / d, d a power of ten.
Unsigned(p) == IF Len(p) > 0 /\ p[1] \in {"-", "+"} THEN Tail(p) ELSE p
IsFloatText(p) ==
    LET u == Unsigned(p)
    IN  /\ \A i \in 1..Len(u) : IsDigit(u[i]) \/ u[i] = "."
        /\ \E i \in 1..Len(u) : IsDigit(u[i])
        /\ Cardinality({i \in 1..Len(u) : u[i] = "."}) <= 1

RECURSIVE DigitsValue(_)
DigitsValue(u) ==
    IF u = <<>> THEN 0
    ELSE LET front == SubSeq(u, 1, Len(u) - 1)
             c     == u[Len(u)]
         IN  IF c = "." THEN DigitsValue(front)
             ELSE 10 * DigitsValue(front) + DigitVal(c)

RECURSIVE Pow10(_)
Pow10(k) == IF k = 0 THEN 1 ELSE 10 * Pow10(k - 1)

FloatValue(p) ==
    LET u    == Unsigned(p)
        dot  == {i \in 1..Len(u) : u[i] = "."}
        frac == IF dot = {} THEN 0 ELSE Len(u) - (CHOOSE i \in dot : TRUE)
        sign == IF Len(p) > 0 /\ p[1] = "-" THEN -1 ELSE 1
    IN  [n |-> sign * DigitsValue(u), d |-> Pow10(frac)]

\* A ratio the parser returns: the fraction n / d with d > 0.
Ratio(n, d) == IF d < 0 THEN [t |-> "ratio", n |-> -n, d |-> -d]
                        ELSE [t |-> "ratio", n |-> n, d |-> d]

\* The mutant of parse_exercise_ratio: the two parts divided the other way round.
parse_exercise_ratio_inverted(ratio_str) ==
    IF ratio_str.t # "str" THEN None
    ELSE LET parts == Split(ratio_str.v)
         IN  IF Len(parts) # 2 THEN None
             ELSE IF ~IsFloatText(parts[1]) \/ ~IsFloatText(parts[2]) THEN None
             ELSE LET a == FloatValue(parts[1])
                      b == FloatValue(parts[2])
                  IN  IF a.n = 0 THEN None
                      ELSE Ratio(b.n * a.d, b.d * a.n)

\* The mutant of parse_exercise_ratio: a text without a colon is read as "A:1".
parse_exercise_ratio_single(ratio_str) ==
    IF ratio_str.t # "str" THEN None
    ELSE LET parts == Split(ratio_str.v)
         IN  IF Len(parts) = 1 /\ IsFloatText(parts[1])
             THEN Ratio(FloatValue(parts[1]).n, FloatValue(parts[1]).d)
             ELSE IF Len(parts) # 2 THEN None
             ELSE IF ~IsFloatText(parts[1]) \/ ~IsFloatText(parts[2]) THEN None
             ELSE LET a == FloatValue(parts[1])
                      b == FloatValue(parts[2])
                  IN  IF b.n = 0 THEN None
                      ELSE Ratio(a.n * b.d, a.d * b.n)

\* parse_exercise_ratio, lines 27-39: float(parts[0]) / float(parts[1]) of a text
\* "A:B", None for anything that raises (no string, a part that is no number,
\* division by zero) or has not two parts.
parse_exercise_ratio(ratio_str) ==
    IF ratio_str.t # "str" THEN None
    ELSE LET parts == Split(ratio_str.v)
         IN  IF Len(parts) # 2 THEN None
             ELSE IF ~IsFloatText(parts[1]) \/ ~IsFloatText(parts[2]) THEN None
             ELSE LET a == FloatValue(parts[1])
                      b == FloatValue(parts[2])
                  IN  IF b.n = 0 THEN None
                      ELSE Ratio(a.n * b.d, a.d * b.n)

\* round(n / d, 0) as Python rounds: to the nearest integer, a tie to the even one.
RoundHalfEven(n, d) ==
    LET nn == IF d < 0 THEN -n ELSE n
        dd == IF d < 0 THEN -d ELSE d
        q  == nn \div dd
        r  == nn - q * dd
    IN  IF 2 * r < dd THEN q
        ELSE IF 2 * r > dd THEN q + 1
        ELSE IF q % 2 = 0 THEN q ELSE q + 1

\* str.lower() over the letters the inputs use
LowerChar(c) ==
    CASE c = "C" -> "c" [] c = "A" -> "a" [] c = "L" -> "l"
      [] c = "P" -> "p" [] c = "U" -> "u" [] c = "T" -> "t"
      [] OTHER -> c
Lower(s) == [i \in 1..Len(s) |-> LowerChar(s[i])]

EmptyStr == JStr(<<>>)
CallText == <<"c", "a", "l", "l">>
PutText  == <<"p", "u", "t">>
Raise    == [t |-> "raise"]

\* The mutant of IntrinsicExact: the put branch computed like the call branch.
IntrinsicExactCallOnly(sw_type, underlying_price, exercise_price, ratio) ==
    [n |-> (underlying_price - exercise_price) * ratio.d, d |-> ratio.n]

\* intrinsic_value, lines 63-72, as the fraction n / d it is before rounding:
\* (underlying_price - exercise_price) / exercise_ratio for a call, and
\* (exercise_price - underlying_price) / exercise_ratio for a put.
IntrinsicExact(sw_type, underlying_price, exercise_price, ratio) ==
    IF sw_type = CallText
    THEN [n |-> (underlying_price - exercise_price) * ratio.d, d |-> ratio.n]
    ELSE [n |-> (exercise_price - underlying_price) * ratio.d, d |-> ratio.n]

\* is_itm, lines 67 and 73
IsItm(sw_type, underlying_price, exercise_price) ==
    IF sw_type = CallText THEN underlying_price > exercise_price
                          ELSE exercise_price > underlying_price

\* The mutant of MaxZero: the floor at zero left out.
MaxZeroDropped(x) == x

\* max(0, intrinsic_value), line 82, of a fraction
MaxZero(x) == IF x.n * x.d > 0 THEN x ELSE [n |-> 0, d |-> 1]

\* The mutant of MoneynessExact: the direction turned for a put.
MoneynessExactByType(sw_type, underlying_price, exercise_price) ==
    IF sw_type = CallText
    THEN [n |-> (underlying_price - exercise_price) * 100, d |-> exercise_price]
    ELSE [n |-> (exercise_price - underlying_price) * 100, d |-> exercise_price]

\* moneyness_pct, line 79, before rounding
MoneynessExact(sw_type, underlying_price, exercise_price) ==
    [n |-> (underlying_price - exercise_price) * 100, d |-> exercise_price]

\* round(x, 2) in hundredths, round(x, 4) in ten-thousandths
Round2(x) == RoundHalfEven(100 * x.n, x.d)
Round4(x) == RoundHalfEven(10000 * x.n, x.d)

\* The mutant of MetricsGuard: only the exercise price is looked at.
MetricsGuardExerciseOnly(exercise_price, underlying_price) ==
    ~Truthy(exercise_price)

\* not exercise_price or not underlying_price, line 55
MetricsGuard(exercise_price, underlying_price) ==
    ~Truthy(exercise_price) \/ ~Truthy(underlying_price)

\* calculate_warrant_metrics, lines 41-90: the metrics, None, or Raise when
\* SWType holds a value without lower().
calculate_warrant_metrics(record, underlying_price) ==
    LET exercise_price     == Get(record, "ExercisePrice", None)
        exercise_ratio_str == Get(record, "ExerciseRatio", EmptyStr)
        sw_type_raw        == Get(record, "SWType", EmptyStr)
    IN  IF sw_type_raw.t # "str" THEN Raise
        ELSE IF MetricsGuard(exercise_price, underlying_price) THEN None
        ELSE LET sw_type        == Lower(sw_type_raw.v)
                 exercise_ratio == parse_exercise_ratio(exercise_ratio_str)
             IN  IF exercise_ratio = None \/ exercise_ratio.n = 0 THEN None
                 ELSE IF sw_type \notin {CallText, PutText} THEN None
                 ELSE LET intrinsic_value ==
                              IntrinsicExact(sw_type, underlying_price.v,
                                             exercise_price.v, exercise_ratio)
                      IN  [t |-> "dict",
                           intrinsicValue         |-> Round2(intrinsic_value),
                           intrinsicValueAdjusted |-> Round2(MaxZero(intrinsic_value)),
                           moneynessPercent       |->
                               Round2(MoneynessExact(sw_type, underlying_price.v,
                                                     exercise_price.v)),
                           isInTheMoney           |->
                               IsItm(sw_type, underlying_price.v, exercise_price.v),
                           exerciseRatioNumeric   |->
                               Round4([n |-> exercise_ratio.n, d |-> exercise_ratio.d])]

----------------------------------------------------------------------------
(* scrape_sw_combined.py: combine_data *)

\* dict.get(key) on a JSON object held as a function from its keys
DictGet(map, key) ==
    IF key.t = "str" /\ key.v \in DOMAIN map THEN map[key.v] ELSE None

\* The dict literal of lines 143-150
OhlcSubset(ohlc) ==
    [t |-> "dict", date |-> ohlc.date, open |-> ohlc.open, high |-> ohlc.high,
     low |-> ohlc.low, close |-> ohlc.close, volume |-> ohlc.volume]

\* The dict literal of lines 167-179
PriceSubset(warrant_price) ==
    [t |-> "dict", open |-> warrant_price.open, high |-> warrant_price.high,
     low |-> warrant_price.low, last |-> warrant_price.last,
     change |-> warrant_price.change, percentChange |-> warrant_price.percentChange,
     bid |-> warrant_price.bid, offer |-> warrant_price.offer,
     volume |-> warrant_price.volume, value |-> warrant_price.value,
     tradeDate |-> warrant_price.tradeDate]

AddedKeys == {"UnderlyingOHLC", "WarrantMetrics", "WarrantPrice"}

\* The mutant of Enriched: the ExerciseRatio is nulled once the metrics are made.
EnrichedConsumingRatio(record, ohlcValue, metrics, priceValue) ==
    [k \in DOMAIN record \cup AddedKeys |->
        CASE k = "UnderlyingOHLC" -> ohlcValue
          [] k = "WarrantMetrics" -> metrics
          [] k = "WarrantPrice"   -> priceValue
          [] k = "ExerciseRatio"  -> JNull
          [] OTHER                -> record[k]]

\* enriched = {**record} with the three keys set
Enriched(record, ohlcValue, metrics, priceValue) ==
    [k \in DOMAIN record \cup AddedKeys |->
        CASE k = "UnderlyingOHLC" -> ohlcValue
          [] k = "WarrantMetrics" -> metrics
          [] k = "WarrantPrice"   -> priceValue
          [] OTHER                -> record[k]]

\* Lines 141-184 once the two lookups are made: the enriched record and what
\* it adds to the three counters; raised when the metrics raise.
JoinWith(record, ohlc, warrant_price, metrics) ==
    IF metrics = Raise THEN [raised |-> TRUE]
    ELSE [raised    |-> FALSE,
          enriched  |-> Enriched(record,
                            IF Truthy(ohlc) THEN OhlcSubset(ohlc) ELSE None,
                            metrics,
                            IF Truthy(warrant_price) THEN PriceSubset(warrant_price)
                            ELSE None),
          matched   |-> IF Truthy(ohlc) THEN 1 ELSE 0,
          unmatched |-> IF Truthy(ohlc) THEN 0 ELSE 1,
          priced    |-> IF Truthy(warrant_price) THEN 1 ELSE 0]

\* Lines 152-162: metrics only for a record with OHLC
MetricsFor(record, ohlc) ==
    IF Truthy(ohlc) THEN calculate_warrant_metrics(record, JNum(ohlc.close)) ELSE None

\* The loop body, lines 134-184, on one record; raised when the body raises
\* (a record without Underlying or KodeSW, or metrics that raise).
JoinStep(record, ohlc_map, warrant_prices_map) ==
    IF record["Underlying"] = Missing \/ record["KodeSW"] = Missing
    THEN [raised |-> TRUE]
    ELSE JoinWith(record,
                  DictGet(ohlc_map, record["Underlying"]),
                  DictGet(warrant_prices_map, record["KodeSW"]),
                  MetricsFor(record, DictGet(ohlc_map, record["Underlying"])))

\* The mutant of Accumulate: a record without OHLC is counted as unmatched but
\* left out of the output.
AccumulateSkipping(acc, j) ==
    IF j.raised THEN [acc EXCEPT !.raised = TRUE]
    ELSE [raised           |-> FALSE,
          combined_records |-> IF j.matched = 1
                               THEN Append(acc.combined_records, j.enriched)
                               ELSE acc.combined_records,
          matched_ohlc     |-> acc.matched_ohlc + j.matched,
          unmatched_ohlc   |-> acc.unmatched_ohlc + j.unmatched,
          matched_prices   |-> acc.matched_prices + j.priced]

\* What one pass of the loop does to the accumulators, lines 159-184
Accumulate(acc, j) ==
    IF j.raised THEN [acc EXCEPT !.raised = TRUE]
    ELSE [raised           |-> FALSE,
          combined_records |-> Append(acc.combined_records, j.enriched),
          matched_ohlc     |-> acc.matched_ohlc + j.matched,
          unmatched_ohlc   |-> acc.unmatched_ohlc + j.unmatched,
          matched_prices   |-> acc.matched_prices + j.priced]

\* The for loop, lines 128-184, from the accumulators acc
RECURSIVE CombineLoop(_, _, _, _)
CombineLoop(records, ohlc_map, warrant_prices_map, acc) ==
    IF records = <<>> \/ acc.raised THEN acc
    ELSE CombineLoop(Tail(records), ohlc_map, warrant_prices_map,
             Accumulate(acc, JoinStep(Head(records), ohlc_map, warrant_prices_map)))

LoopStart == [raised |-> FALSE, combined_records |-> <<>>,
              matched_ohlc |-> 0, unmatched_ohlc |-> 0, matched_prices |-> 0]

CountIf(records, Test(_)) == Cardinality({i \in 1..Len(records) : Test(records[i])})

\* r.get('SWType', '').lower() raises for a value that is no string, lines 191-192
TypeRaises(r) == Get(r, "SWType", EmptyStr).t # "str"
TypeIs(r, text) == Lower(Get(r, "SWType", EmptyStr).v) = text

\* The mutant of Statistics: calls and puts are counted among the records with
\* metrics only.
StatisticsOfValued(combined_records) ==
    LET Itm(r)  == Truthy(r["WarrantMetrics"]) /\ r["WarrantMetrics"].isInTheMoney
        Otm(r)  == Truthy(r["WarrantMetrics"]) /\ ~r["WarrantMetrics"].isInTheMoney
        Call(r) == Truthy(r["WarrantMetrics"]) /\ TypeIs(r, CallText)
        Put(r)  == Truthy(r["WarrantMetrics"]) /\ TypeIs(r, PutText)
        Vol(r)  == Truthy(r["WarrantPrice"]) /\ r["WarrantPrice"].volume > 0
        Trd(r)  == Truthy(r["WarrantPrice"]) /\ r["WarrantPrice"].last > 0
    IN  [callWarrants  |-> CountIf(combined_records, Call),
         putWarrants   |-> CountIf(combined_records, Put),
         inTheMoney    |-> CountIf(combined_records, Itm),
         outOfTheMoney |-> CountIf(combined_records, Otm),
         withVolume    |-> CountIf(combined_records, Vol),
         withTrades    |-> CountIf(combined_records, Trd)]

\* The mutant of Statistics: every record that is not in the money counts as
\* out of the money, the ones without metrics too.
StatisticsTwoWay(combined_records) ==
    LET Itm(r)  == Truthy(r["WarrantMetrics"]) /\ r["WarrantMetrics"].isInTheMoney
        Otm(r)  == ~(Truthy(r["WarrantMetrics"]) /\ r["WarrantMetrics"].isInTheMoney)
        Call(r) == TypeIs(r, CallText)
        Put(r)  == TypeIs(r, PutText)
        Vol(r)  == Truthy(r["WarrantPrice"]) /\ r["WarrantPrice"].volume > 0
        Trd(r)  == Truthy(r["WarrantPrice"]) /\ r["WarrantPrice"].last > 0
    IN  [callWarrants  |-> CountIf(combined_records, Call),
         putWarrants   |-> CountIf(combined_records, Put),
         inTheMoney    |-> CountIf(combined_records, Itm),
         outOfTheMoney |-> CountIf(combined_records, Otm),
         withVolume    |-> CountIf(combined_records, Vol),
         withTrades    |-> CountIf(combined_records, Trd)]

\* The statistics block, lines 187-198 and 209-216
Statistics(combined_records) ==
    LET Itm(r)  == Truthy(r["WarrantMetrics"]) /\ r["WarrantMetrics"].isInTheMoney
        Otm(r)  == Truthy(r["WarrantMetrics"]) /\ ~r["WarrantMetrics"].isInTheMoney
        Call(r) == TypeIs(r, CallText)
        Put(r)  == TypeIs(r, PutText)
        Vol(r)  == Truthy(r["WarrantPrice"]) /\ r["WarrantPrice"].volume > 0
        Trd(r)  == Truthy(r["WarrantPrice"]) /\ r["WarrantPrice"].last > 0
    IN  [callWarrants  |-> CountIf(combined_records, Call),
         putWarrants   |-> CountIf(combined_records, Put),
         inTheMoney    |-> CountIf(combined_records, Itm),
         outOfTheMoney |-> CountIf(combined_records, Otm),
         withVolume    |-> CountIf(combined_records, Vol),
         withTrades    |-> CountIf(combined_records, Trd)]

\* Lines 114-123: the price map, empty when the file does not exist
PricesMap(prices) == IF prices = Absent THEN <<>> ELSE prices.data
\* prices_data.get('fetchedAt') if prices_data else None, line 204
PricesFetchedAt(prices) == IF prices = Absent THEN None ELSE JNum(prices.fetchedAt)

\* The mutant of Combined: the records of the combined file of an earlier call
\* are kept and the new ones appended to them.
CombinedAppending(loop, sw, ohlc, prices, old, clock) ==
    [t |-> "dict",
     generatedAt         |-> clock,
     warrantFilteredDate |-> sw.filteredDate,
     ohlcFetchedAt       |-> ohlc.fetchedAt,
     pricesFetchedAt     |-> PricesFetchedAt(prices),
     totalWarrants       |-> Len(loop.combined_records),
     withOHLC            |-> loop.matched_ohlc,
     withoutOHLC         |-> loop.unmatched_ohlc,
     withPrices          |-> loop.matched_prices,
     statistics          |-> Statistics(loop.combined_records),
     data                |-> IF old \in {Absent, Truncated} THEN loop.combined_records
                             ELSE old.data \o loop.combined_records]

\* The dict literal of lines 200-218 from what the loop left.  old is the
\* combined file as the call finds it, which the code never reads.
Combined(loop, sw, ohlc, prices, old, clock) ==
    [t |-> "dict",
     generatedAt         |-> clock,
     warrantFilteredDate |-> sw.filteredDate,
     ohlcFetchedAt       |-> ohlc.fetchedAt,
     pricesFetchedAt     |-> PricesFetchedAt(prices),
     totalWarrants       |-> Len(loop.combined_records),
     withOHLC            |-> loop.matched_ohlc,
     withoutOHLC         |-> loop.unmatched_ohlc,
     withPrices          |-> loop.matched_prices,
     statistics          |-> Statistics(loop.combined_records),
     data                |-> loop.combined_records]

\* Lines 125-218 once the listing and the OHLC file are loaded: Raise when a
\* record makes the loop or the statistics raise, else the combined document.
CombineLoaded(loop, sw, ohlc, prices, old, clock) ==
    IF loop.raised \/ \E i \in 1..Len(sw.data) : TypeRaises(sw.data[i])
    THEN Raise
    ELSE Combined(loop, sw, ohlc, prices, old, clock)

\* The mutant of combine_output: a missing price file aborts the call like a
\* missing listing.
combine_output_strict(sw, ohlc, prices, old, clock) ==
    IF sw = Absent \/ ohlc = Absent \/ prices = Absent THEN None
    ELSE IF Truncated \in {sw, ohlc, prices} THEN Raise
    ELSE CombineLoaded(CombineLoop(sw.data, ohlc.data, PricesMap(prices), LoopStart),
                       sw, ohlc, prices, old, clock)

\* combine_data, lines 100-218, up to the save: None when the listing or the
\* OHLC file does not exist (lines 101-103 and 108-110), raised when json.load
\* raises on a file that holds no whole document (lines 105, 112 and 118).
combine_output(sw, ohlc, prices, old, clock) ==
    IF sw = Absent THEN None
    ELSE IF sw = Truncated THEN Raise
    ELSE IF ohlc = Absent THEN None
    ELSE IF Truncated \in {ohlc, prices} THEN Raise
    ELSE CombineLoaded(CombineLoop(sw.data, ohlc.data, PricesMap(prices), LoopStart),
                       sw, ohlc, prices, old, clock)

\* The mutant of SaveCombined: the output file is opened for writing before
\* the inputs are looked at, so a call that aborts leaves it empty.
SaveCombinedEarly(old, out, io) ==
    IF out.t = "dict" THEN save_json(old, out, io)
    ELSE IF io = "open_failed" THEN old ELSE Truncated

\* Line 220 when the call reaches it: the combined file after the call
SaveCombined(old, out, io) ==
    IF out.t = "dict" THEN save_json(old, out, io) ELSE old

\* What one call leaves: its return value and the combined file.
CombineEffect(out, io) ==
    /\ combineResult' = out
    /\ combinedFile' = SaveCombined(combinedFile, out, io)
    /\ combineSaved' = IF out.t # "dict" THEN "none"
                       ELSE IF io = "ok" THEN "saved" ELSE "ioerror"

\* One call of combine_data, lines 92-228.  The clock moves on by dt while
\* the call loads its inputs; line 201 reads it.
CombineData ==
    /\ combineCalls < MaxCalls
    /\ \E io \in IoOutcomes, dt \in {0, 1} :
          /\ now' = now + dt
          /\ CombineEffect(combine_output(swFile, ohlcFile, pricesFile,
                                          combinedFile, now + dt), io)
    /\ combineCalls' = combineCalls + 1
    /\ UNCHANGED <<swFile, ohlcFile, pricesFile, listerVars, joinVars,
                   ohlcVars, pricesVars, mainVars, ratioVars, stepVars,
                   companyVars>>

\* The loop body applied to one record.
JoinResult(j) == IF j.raised THEN Raise ELSE j.enriched

JoinOne ==
    /\ jenriched = None
    /\ jenriched' = JoinResult(JoinStep(jrecord, johlcMap, jpricesMap))
    /\ UNCHANGED <<now, fileVars, listerVars, combineVars, jrecord, johlcMap, jpricesMap,
                   ohlcVars, pricesVars, mainVars, ratioVars, stepVars,
                   companyVars>>

----------------------------------------------------------------------------
(* scrape_sw_combined.py: combine_data and save_json statement by statement *)

\* Lines 100-131: the existence checks and the three loads.
WLoad ==
    /\ wpc = "start"
    /\ IF swFile = Absent \/ (swFile # Truncated /\ ohlcFile = Absent)
       THEN wpc' = "returned" /\ UNCHANGED <<wacc, wtodo>>
       ELSE IF Truncated \in {swFile, ohlcFile, pricesFile}
       THEN wpc' = "raised" /\ UNCHANGED <<wacc, wtodo>>
       ELSE wpc' = "loop" /\ wacc' = LoopStart /\ wtodo' = swFile.data
    /\ UNCHANGED <<now, fileVars, listerVars, combineVars, joinVars, ohlcVars,
                   pricesVars, mainVars, ratioVars, wcombined, wflushed, wopens,
                   companyVars>>

\* Lines 133-184: one pass of the for loop.
WJoin ==
    /\ wpc = "loop" /\ wtodo # <<>>
    /\ wacc' = Accumulate(wacc, JoinStep(Head(wtodo), ohlcFile.data,
                                         PricesMap(pricesFile)))
    /\ wtodo' = Tail(wtodo)
    /\ wpc' = IF wacc'.raised THEN "raised" ELSE "loop"
    /\ UNCHANGED <<now, fileVars, listerVars, combineVars, joinVars, ohlcVars,
                   pricesVars, mainVars, ratioVars, wcombined, wflushed, wopens,
                   companyVars>>

\* Lines 187-218 once the loop is through: the statistics and the dict.
WStats ==
    /\ wpc = "loop" /\ wtodo = <<>>
    /\ wcombined' = CombineLoaded(wacc, swFile, ohlcFile, pricesFile,
                                  combinedFile, now)
    /\ wpc' = IF wcombined' = Raise THEN "raised" ELSE "save"
    /\ UNCHANGED <<now, fileVars, listerVars, combineVars, joinVars, ohlcVars,
                   pricesVars, mainVars, ratioVars, wacc, wtodo, wflushed, wopens,
                   companyVars>>

\* save_json, line 21: open(file_path, 'w') empties the file, or raises the
\* IOError that line 24 swallows and leaves the file alone.
WOpen ==
    /\ wpc = "save"
    /\ \E opened \in BOOLEAN :
           IF opened
           THEN /\ combinedFile' = Truncated
                /\ wopens' = wopens + 1
                /\ wpc' = "dump"
           ELSE /\ wpc' = "returned"
                /\ UNCHANGED <<combinedFile, wopens>>
    /\ UNCHANGED <<now, swFile, ohlcFile, pricesFile, listerVars, combineVars,
                   joinVars, ohlcVars, pricesVars, mainVars, ratioVars, wacc,
                   wtodo, wcombined, wflushed,
                   companyVars>>

\* save_json, line 22: json.dump writes the document piece by piece; one more
\* record of the data array reaches the file.
WFlush ==
    /\ wpc = "dump" /\ wflushed < Len(wcombined.data)
    /\ wflushed' = wflushed + 1
    /\ UNCHANGED <<now, fileVars, listerVars, combineVars, joinVars, ohlcVars,
                   pricesVars, mainVars, ratioVars, wpc, wacc, wtodo, wcombined,
                   wopens,
                   companyVars>>

\* save_json, lines 22-25: a write raises IOError (the disk is full); the
\* handler prints it and the file keeps what was written so far.
WFail ==
    /\ wpc = "dump"
    /\ wpc' = "returned"
    /\ UNCHANGED <<now, fileVars, listerVars, combineVars, joinVars, ohlcVars,
                   pricesVars, mainVars, ratioVars, wacc, wtodo, wcombined,
                   wflushed, wopens,
                   companyVars>>

\* save_json, line 22 to the end of the with block: the rest is written and
\* the file closed; it holds the whole document.
WClose ==
    /\ wpc = "dump" /\ wflushed = Len(wcombined.data)
    /\ combinedFile' = wcombined
    /\ wpc' = "returned"
    /\ UNCHANGED <<now, swFile, ohlcFile, pricesFile, listerVars, combineVars,
                   joinVars, ohlcVars, pricesVars, mainVars, ratioVars, wacc,
                   wtodo, wcombined, wflushed, wopens,
                   companyVars>>

----------------------------------------------------------------------------
(* Inputs *)

\* Texts, spelled out character by character
T_2p0_1p0 == <<"2", ".", "0", ":", "1", ".", "0">>
T_1p0_1p0 == <<"1", ".", "0", ":", "1", ".", "0">>
T_3_1     == <<"3", ":", "1">>
T_1_2     == <<"1", ":", "2">>
T_0_1     == <<"0", ":", "1">>
T_1_0     == <<"1", ":", "0">>
T_m2_1    == <<"-", "2", ":", "1">>
T_2_m1    == <<"2", ":", "-", "1">>
T_2       == <<"2">>
T_1_2_3   == <<"1", ":", "2", ":", "3">>
T_x_1     == <<"x", ":", "1">>
T_2_      == <<"2", ":">>
RatioTexts == {T_2p0_1p0, T_1p0_1p0, T_3_1, T_1_2, T_0_1, T_1_0, T_m2_1, T_2_m1,
               T_2, T_1_2_3, T_x_1, T_2_, <<>>}
TypeTexts  == {<<"c", "a", "l", "l">>, <<"C", "a", "l", "l">>, <<"C", "A", "L", "L">>,
               <<"p", "u", "t">>, <<"P", "U", "T">>, <<"x">>, <<>>}

Bar(ticker, close) ==
    [t |-> "dict", ticker |-> ticker, yahooTicker |-> ticker, date |-> 1,
     open |-> close, high |-> close, low |-> close, close |-> close, volume |-> 100]
PriceRec(code, last, volume) ==
    [t |-> "dict", kodeSW |-> code, kodeEmiten |-> "EM", open |-> last, high |-> last,
     low |-> last, last |-> last, change |-> 0, percentChange |-> 0, bid |-> last,
     offer |-> last, volume |-> volume, value |-> last * volume, tradeDate |-> 1]

\* One record against every shape of its metric inputs
JoinRecords ==
    {[KodeSW |-> JStr("W1"), Underlying |-> JStr("AAA"), SWType |-> ty,
      ExercisePrice |-> ep, ExerciseRatio |-> ra] :
        ty \in {JStr(x) : x \in TypeTexts} \cup {Missing, JNull},
        ep \in {JNum(1000), JNum(0), JNull, Missing},
        ra \in {JStr(x) : x \in RatioTexts} \cup {Missing, JNull}}
JoinOhlcMaps   == {<<>>} \cup {[k \in {"AAA"} |-> Bar(k, c)] : c \in {0, 900, 1000, 1200}}
JoinPricesMaps == {<<>>, [k \in {"W1"} |-> PriceRec(k, 10, 5)]}

\* Listing, OHLC and price files as the stages write them
SwRecord(code, ticker, ty, ra) ==
    [KodeSW |-> JStr(code), Underlying |-> JStr(ticker), SWType |-> JStr(ty),
     ExercisePrice |-> JNum(1000), ExerciseRatio |-> JStr(ra)]
CombineRecords ==
    {SwRecord("W1", "AAA", <<"C", "a", "l", "l">>, T_2p0_1p0),
     SwRecord("W2", "AAA", <<"p", "u", "t">>, T_2p0_1p0),
     SwRecord("W1", "BBB", <<"p", "u", "t">>, T_1p0_1p0),
     SwRecord("W2", "BBB", <<"C", "A", "L", "L">>, T_3_1),
     SwRecord("W1", "AAA", <<"x">>, T_2p0_1p0),
     SwRecord("W2", "BBB", <<"p", "u", "t">>, T_x_1)}
SwFiles ==
    {[totalRecords |-> Len(l), filteredDate |-> 1, data |-> l] :
        l \in SeqsUpTo(CombineRecords, MaxRecords)}
OhlcFiles ==
    {[fetchedAt |-> 1, totalTickers |-> 2, successCount |-> Cardinality(S),
      failCount |-> 2 - Cardinality(S),
      data |-> [k \in S |-> Bar(k, IF k = "AAA" THEN 1200 ELSE 1000)]] :
        S \in {{}, {"AAA"}, {"AAA", "BBB"}}}
PriceMaps ==
    {<<>>, [k \in {"W1"} |-> PriceRec(k, 0, 0)],
     [k \in {"W1", "W2"} |-> IF k = "W1" THEN PriceRec(k, 10, 0) ELSE PriceRec(k, 0, 5)]}
PriceFiles ==
    {[fetchedAt |-> 1, totalWarrants |-> Cardinality(DOMAIN m),
      activeWarrants |-> Cardinality({k \in DOMAIN m : m[k].volume > 0 \/ m[k].last > 0}),
      data |-> m] : m \in PriceMaps}
\* Listings whose records differ in ExerciseRatio only: every malformed or zero
\* shape, and one well-formed ratio
RatioValues ==
    {JStr(x) : x \in {T_2p0_1p0, T_0_1, T_1_0, T_2, T_1_2_3, T_x_1, T_2_, <<>>}}
    \cup {Missing, JNull}
RatioRecords ==
    {[SwRecord("W1", "AAA", <<"C", "a", "l", "l">>, T_2p0_1p0)
          EXCEPT !.ExerciseRatio = v] : v \in RatioValues}
RatioFiles ==
    {[totalRecords |-> Len(l), filteredDate |-> 1, data |-> l] :
        l \in SeqsUpTo(RatioRecords, MaxRecords)}

\* A combined file left by an earlier run
StaleCombined ==
    [t |-> "dict", generatedAt |-> 0, warrantFilteredDate |-> 0, ohlcFetchedAt |-> 0,
     pricesFetchedAt |-> None, totalWarrants |-> 1, withOHLC |-> 0, withoutOHLC |-> 1,
     withPrices |-> 0,
     statistics |-> [callWarrants |-> 0, putWarrants |-> 1, inTheMoney |-> 0,
                     outOfTheMoney |-> 0, withVolume |-> 0, withTrades |-> 0],
     data |-> <<Enriched(SwRecord("W0", "ZZZ", <<"p", "u", "t">>, T_1p0_1p0),
                         None, None, None)>>]

----------------------------------------------------------------------------
(* scrape_underlying_ohlc.py *)

\* How one attempt of fetch_ohlc may end: a last bar with some close, an empty
\* history, or an exception of yfinance.
OhlcOutcomes ==
    {[kind |-> "bar", close |-> c] : c \in {1000, 1200}}
    \cup {[kind |-> "empty"], [kind |-> "exception"]}
\* What yfinance does on each attempt that fetch_ohlc may make for one ticker
OhlcPlans == [1..MAX_RETRIES -> OhlcOutcomes]

\* fetch_ohlc, lines 45-77, from its attempt on: what it returns and what it
\* did with the trace so far.
RECURSIVE FetchFrom(_, _, _, _)
FetchFrom(ticker_code, plan, attempt, trace) ==
    IF attempt > MAX_RETRIES THEN [value |-> None, trace |-> trace]
    ELSE CASE plan[attempt].kind = "empty" ->
                  [value |-> None, trace |-> Append(trace, "f")]
           [] plan[attempt].kind = "bar" ->
                  [value |-> Bar(ticker_code, plan[attempt].close),
                   trace |-> Append(trace, "a")]
           [] OTHER ->
                  IF attempt < MAX_RETRIES
                  THEN FetchFrom(ticker_code, plan, attempt + 1, trace \o <<"r", "s">>)
                  ELSE [value |-> None, trace |-> Append(trace, "r")]

fetch_ohlc(ticker_code, plan) == FetchFrom(ticker_code, plan, 1, <<>>)

\* ohlc_map[code] = ohlc
MapSet(map, key, value) ==
    [k \in DOMAIN map \cup {key} |-> IF k = key THEN value ELSE map[k]]

OhlcStart == [ohlc_map |-> <<>>, success_count |-> 0, fail_count |-> 0]

\* The mutant of OhlcCount: a ticker without data ends the batch's counting.
OhlcCountDropping(acc, code, ohlc) ==
    IF Truthy(ohlc)
    THEN [ohlc_map      |-> MapSet(acc.ohlc_map, code, ohlc),
          success_count |-> acc.success_count + 1,
          fail_count    |-> acc.fail_count]
    ELSE acc

\* Lines 102-106: the fetched bar kept and counted, or the failure counted
OhlcCount(acc, code, ohlc) ==
    IF Truthy(ohlc)
    THEN [ohlc_map      |-> MapSet(acc.ohlc_map, code, ohlc),
          success_count |-> acc.success_count + 1,
          fail_count    |-> acc.fail_count]
    ELSE [acc EXCEPT !.fail_count = acc.fail_count + 1]

\* The result of lines 110-116
OhlcResult(ticker_codes, acc, clock) ==
    [fetchedAt    |-> clock,
     totalTickers |-> Len(ticker_codes),
     successCount |-> acc.success_count,
     failCount    |-> acc.fail_count,
     data         |-> acc.ohlc_map]

\* One pass of the loop of scrape_underlying_ohlc, lines 98-108
OFetch ==
    /\ opc = "loop" /\ Len(otraces) < Len(otickers)
    /\ \E plan \in OhlcPlans :
          LET code == otickers[Len(otraces) + 1]
              got  == fetch_ohlc(code, plan)
          IN  /\ oacc' = OhlcCount(oacc, code, got.value)
              /\ otraces' = Append(otraces, got.trace)
    /\ UNCHANGED <<now, fileVars, listerVars, combineVars, joinVars, otickers, opc,
                   oresult, osaved, pricesVars, mainVars, ratioVars, stepVars,
                   companyVars>>

\* After the loop, lines 110-121: the result saved and returned
OSave ==
    /\ opc = "loop" /\ Len(otraces) = Len(otickers)
    /\ \E io \in IoOutcomes :
          /\ ohlcFile' = save_json(ohlcFile, OhlcResult(otickers, oacc, now), io)
          /\ osaved' = IF io = "ok" THEN "saved" ELSE "ioerror"
    /\ oresult' = OhlcResult(otickers, oacc, now)
    /\ opc' = "done"
    /\ UNCHANGED <<now, swFile, pricesFile, combinedFile, listerVars, combineVars,
                   joinVars, otickers, oacc, otraces, pricesVars, mainVars, ratioVars,
                   stepVars,
                   companyVars>>

----------------------------------------------------------------------------
(* scrape_warrant_prices.py *)

\* One element of the trading endpoint's Results
TradingRec(code, last, volume) ==
    [KodeSW |-> code, KodeEmiten |-> "EM", Open |-> last, High |-> last, Low |-> last,
     Last |-> last, Change |-> 0, PercentChange |-> 0, Bid |-> last, Offer |-> last,
     Volume |-> volume, Value |-> last * volume, TradeDate |-> 1]
TradingRecs ==
    {TradingRec("W1", 10, 0), TradingRec("W1", 0, 0),
     TradingRec("W2", 0, 5), TradingRec("W2", 0, 0)}
TradingLists == SeqsUpTo(TradingRecs, MaxRecords)

\* What the trading endpoint may answer to one request
PriceResponses ==
    {[kind |-> "neterr"]}
    \cup {[kind |-> "http", status |-> st, body |-> [t |-> "garbled"]] :
              st \in {200, 404, 429, 503}}
    \cup {[kind |-> "http", status |-> 200, body |-> JNull]}
    \cup {[kind |-> "http", status |-> 200, body |-> [t |-> "dict", Results |-> l]] :
              l \in TradingLists}

\* The dict literal of lines 100-114
PriceEntry(w) ==
    [t |-> "dict", kodeSW |-> w.KodeSW, kodeEmiten |-> w.KodeEmiten, open |-> w.Open,
     high |-> w.High, low |-> w.Low, last |-> w.Last, change |-> w.Change,
     percentChange |-> w.PercentChange, bid |-> w.Bid, offer |-> w.Offer,
     volume |-> w.Volume, value |-> w.Value, tradeDate |-> w.TradeDate]

\* The mutant of WarrantPrices: the first element with a code is kept.
RECURSIVE WarrantPricesFirstWins(_, _)
WarrantPricesFirstWins(warrants, warrant_prices) ==
    IF warrants = <<>> THEN warrant_prices
    ELSE WarrantPricesFirstWins(Tail(warrants),
             IF Head(warrants).KodeSW \in DOMAIN warrant_prices THEN warrant_prices
             ELSE MapSet(warrant_prices, Head(warrants).KodeSW, PriceEntry(Head(warrants))))

\* The loop of lines 96-114 from the map built so far
RECURSIVE WarrantPrices(_, _)
WarrantPrices(warrants, warrant_prices) ==
    IF warrants = <<>> THEN warrant_prices
    ELSE WarrantPrices(Tail(warrants),
             MapSet(warrant_prices, Head(warrants).KodeSW, PriceEntry(Head(warrants))))

\* Lines 117-118
ActiveCount(warrant_prices) ==
    Cardinality({k \in DOMAIN warrant_prices :
                    warrant_prices[k].volume > 0 \/ warrant_prices[k].last > 0})

\* Lines 120-125
PricesResult(warrant_prices, clock) ==
    [fetchedAt      |-> clock,
     totalWarrants  |-> Cardinality(DOMAIN warrant_prices),
     activeWarrants |-> ActiveCount(warrant_prices),
     data           |-> warrant_prices]

\* scrape_warrant_prices, lines 85-129, once fetch_data returned
PricesOf(fetched, clock) ==
    IF ~Truthy(fetched) THEN None
    ELSE PricesResult(WarrantPrices(fetched.Results, <<>>), clock)

\* One attempt of fetch_data, lines 21-47: "return" with a value, or "next"
\* (continue, or an exception caught before the last attempt), and how the
\* attempt ended; nothing sleeps between two attempts.
PriceAttempt(resp, attempt) ==
    CASE resp.kind = "neterr" \/ (resp.status = 200 /\ resp.body.t = "garbled") ->
             IF attempt = MAX_RETRIES - 1
             THEN [to |-> "return", value |-> None, event |-> "r"]
             ELSE [to |-> "next", event |-> "r"]
      [] resp.status = 200        -> [to |-> "return", value |-> resp.body, event |-> "a"]
      [] resp.status \in {429, 503} -> [to |-> "next", event |-> "r"]
      [] OTHER                    -> [to |-> "return", value |-> None, event |-> "f"]

\* What PAttempt leaves when fetch_data returns value
PReturn(value) ==
    /\ pdata' = value
    /\ presult' = PricesOf(value, now)
    /\ ppc' = "done"
    /\ pattempt' = pattempt

\* One pass of the loop of fetch_data, and the rest of scrape_warrant_prices
\* when the pass returns
PAttempt ==
    /\ ppc = "fetch" /\ pattempt < MAX_RETRIES
    /\ \E resp \in PriceResponses :
          /\ IF PriceAttempt(resp, pattempt).to = "return"
             THEN PReturn(PriceAttempt(resp, pattempt).value)
             ELSE IF pattempt + 1 < MAX_RETRIES
                  THEN /\ pattempt' = pattempt + 1
                       /\ UNCHANGED <<ppc, pdata, presult>>
                  ELSE PReturn(None)
          /\ ptrace' = Append(ptrace, PriceAttempt(resp, pattempt).event)
    /\ UNCHANGED <<now, fileVars, listerVars, combineVars, joinVars, ohlcVars,
                   mainVars, ratioVars, stepVars,
                   companyVars>>

----------------------------------------------------------------------------
(* A function that is not running: its locals at their first values *)

ListerIdle ==
    /\ lpc = "done" /\ retries = 0 /\ data = None
    /\ lsaved = FALSE /\ lfilterTime = 0 /\ ltrace = <<>>

CombineIdle ==
    /\ combineCalls = 0 /\ combineResult = None /\ combineSaved = "none"

JoinIdle ==
    /\ jrecord = None /\ johlcMap = <<>> /\ jpricesMap = <<>> /\ jenriched = Raise

OhlcIdle ==
    /\ otickers = <<>> /\ opc = "done" /\ oacc = OhlcStart /\ otraces = <<>>
    /\ oresult = None /\ osaved = "none"

PricesIdle ==
    /\ ppc = "done" /\ pattempt = 0 /\ ptrace = <<>> /\ pdata = None /\ presult = None

MainIdle ==
    /\ mpc = "exit" /\ exitCode = 0 /\ mstages = <<>> /\ mlisted = FALSE

RatioIdle ==
    /\ ratioFile = Absent /\ fpc = "done" /\ page_number = 1
    /\ all_data = <<>> /\ frequests = 0

StepIdle ==
    /\ wpc = "returned" /\ wacc = LoopStart /\ wtodo = <<>>
    /\ wcombined = None /\ wflushed = 0 /\ wopens = 0

\* A function returned: its locals are gone.
ListerGone ==
    /\ lpc' = "done" /\ retries' = 0 /\ data' = None
    /\ lsaved' = FALSE /\ lfilterTime' = 0 /\ ltrace' = <<>>

OhlcGone ==
    /\ otickers' = <<>> /\ opc' = "done" /\ oacc' = OhlcStart /\ otraces' = <<>>
    /\ oresult' = None /\ osaved' = "none"

PricesGone ==
    /\ ppc' = "done" /\ pattempt' = 0 /\ ptrace' = <<>> /\ pdata' = None
    /\ presult' = None

CompanyIdle ==
    /\ allCompaniesFile = Absent /\ detailsFile = Absent /\ cpc = "done"
    /\ companies_to_process = <<>> /\ cindex = 1 /\ kode_emiten_json = None
    /\ cstored = None /\ cfetches = <<>> /\ cruns = 0

OthersIdle ==
    OhlcIdle /\ PricesIdle /\ MainIdle /\ RatioIdle /\ StepIdle /\ CompanyIdle

----------------------------------------------------------------------------
(* scrape_sw_combined.py: main *)

\* A listing record as the listing endpoint gives it: the warrant and its dates
MainRecord(code, ticker, ty, ra, first, last) ==
    [KodeSW |-> JStr(code), Underlying |-> JStr(ticker), SWType |-> JStr(ty),
     ExercisePrice |-> JNum(1000), ExerciseRatio |-> JStr(ra),
     FirstTradingDate |-> DateStr(first, "T00:00:00"),
     LastTradingDate |-> DateStr(last, "T00:00:00")]
MainRecords ==
    {MainRecord("W1", "AAA", <<"C", "a", "l", "l">>, T_2p0_1p0, 1, MaxDay),
     MainRecord("W2", "BBB", <<"P", "u", "t">>, T_1p0_1p0, 1, MaxDay),
     MainRecord("W3", "AAA", <<"P", "u", "t">>, T_3_1, 1, 1)}
MainListings == SeqsUpTo(MainRecords, MaxRecords)
MainResponses ==
    {[kind |-> "neterr"]}
    \cup {[kind |-> "http", status |-> st, body |-> [t |-> "garbled"]] :
              st \in {200, 429, 503}}
    \cup {[kind |-> "http", status |-> 200, body |-> [t |-> "dict", Results |-> l]] :
              l \in MainListings}

\* The listing file of an earlier run
StaleListing ==
    [totalRecords |-> 1, filteredDate |-> 0,
     data |-> <<MainRecord("W1", "AAA", <<"C", "a", "l", "l">>, T_2p0_1p0, 1, MaxDay)>>]

\* The price file of an earlier run
StalePrices ==
    [fetchedAt |-> 0, totalWarrants |-> 1, activeWarrants |-> 1,
     data |-> [k \in {"W1"} |-> PriceRec("W1", 10, 5)]]

\* sorted(set(record['Underlying'] for record in sw_data['data'])), line 255
TickerOrder == <<"AAA", "BBB", "ZZZ">>

\* The mutant of Tickers: the Underlying of every record, in the listing's
\* order, duplicates kept.
TickersListed(sw_data) ==
    [i \in 1..Len(sw_data.data) |-> sw_data.data[i]["Underlying"].v]

Tickers(sw_data) ==
    LET Listed(code) == \E i \in 1..Len(sw_data.data) :
                            sw_data.data[i]["Underlying"] = JStr(code)
    IN  SelectSeq(TickerOrder, Listed)

\* The process ends with code
MainExit(code) ==
    /\ mpc' = "exit"
    /\ exitCode' = code

\* Step 1, line 245: scrape_structured_warrants() runs
MLister ==
    /\ mpc = "lister"
    /\ LAttemptOn(MainResponses)

\* Lines 247-260 once the lister returned or raised: the process ends with the
\* lister's exception, with sys.exit(1) when there is no listing file, with
\* json.load's exception on a file that holds no whole document; else the
\* tickers are taken and step 2 starts.  The lister's locals are gone.
MainLoad ==
    /\ mpc = "lister" /\ lpc \in {"done", "crashed"}
    /\ mlisted' = HasResults(data)
    /\ IF lpc = "crashed" \/ swFile = Absent \/ swFile = Truncated
       THEN /\ MainExit(1)
            /\ UNCHANGED <<mstages, ohlcVars>>
       ELSE /\ mpc' = "ohlc"
            /\ mstages' = Append(mstages, "ohlc")
            /\ otickers' = Tickers(swFile)
            /\ opc' = "loop"
            /\ UNCHANGED <<exitCode, oacc, otraces, oresult, osaved>>
    /\ ListerGone
    /\ UNCHANGED <<now, fileVars, combineVars, joinVars, pricesVars,
                   ratioVars, stepVars,
                   companyVars>>

\* Step 2, line 260: scrape_underlying_ohlc(tickers) runs
MOhlc ==
    /\ mpc = "ohlc"
    /\ OFetch \/ OSave

\* Step 3 starts, line 264, once step 2 returned; main drops what it returned.
MainPrices ==
    /\ mpc = "ohlc" /\ opc = "done"
    /\ mpc' = "prices"
    /\ mstages' = Append(mstages, "prices")
    /\ ppc' = "fetch"
    /\ OhlcGone
    /\ UNCHANGED <<now, fileVars, listerVars, combineVars, joinVars,
                   pattempt, ptrace, pdata, presult, exitCode, mlisted, ratioVars,
                   stepVars,
                   companyVars>>

\* Step 3, line 264: scrape_warrant_prices() runs
MPrices ==
    /\ mpc = "prices"
    /\ PAttempt

\* Lines 265-269: the result saved when there is one
SavePrices(old, result, io) == IF result # None THEN save_json(old, result, io) ELSE old

\* combine_data() raising ends the process with code 1; main has nothing
\* after the call that looks at what it returned, lines 273-278.
MainExitCode(out) == IF out = Raise THEN 1 ELSE 0

\* What step 4 leaves, given what it returned
MainFinish(out, io) ==
    /\ CombineEffect(out, io)
    /\ MainExit(MainExitCode(out))

\* Lines 265-278 once step 3 returned: the prices saved, step 4 (combine_data)
\* run, and the process ended.
MainCombine ==
    /\ mpc = "prices" /\ ppc = "done"
    /\ \E ioPrices \in IoOutcomes, io \in IoOutcomes :
          /\ pricesFile' = SavePrices(pricesFile, presult, ioPrices)
          /\ MainFinish(combine_output(swFile, ohlcFile,
                                       SavePrices(pricesFile, presult, ioPrices),
                                       combinedFile, now), io)
    /\ mstages' = Append(mstages, "combine")
    /\ combineCalls' = combineCalls + 1
    /\ PricesGone
    /\ UNCHANGED <<now, swFile, ohlcFile, listerVars, joinVars, ohlcVars, mlisted,
                   ratioVars, stepVars,
                   companyVars>>

----------------------------------------------------------------------------
(* scrape_financial_ratio.py *)

\* The records of a page and the pages the endpoint can answer with
FinRecords == {[code |-> "AALI"], [code |-> "BBCA"]}
FinPages   == SeqsUpTo(FinRecords, MaxRecords) \ {<<>>}

\* What one request can meet: 200 with a page of records (while the endpoint
\* has pages left), 200 with an empty page, 429, or anything else (another
\* status, a body that is no JSON, a network error).
FinResponses(page) ==
    {[status |-> 200, data |-> p] : p \in IF page <= MaxPages THEN FinPages ELSE {}}
    \cup {[status |-> 200, data |-> <<>>], [status |-> 429, data |-> <<>>],
          [status |-> 500, data |-> <<>>]}

\* fetch_data, lines 51-84: the parsed body for 200, RequestsError re-raised
\* for 429, None for every other failure.
RateLimitHit == [t |-> "raise", error |-> "RequestsError"]
FetchRatio(response) ==
    CASE response.status = 200 -> [t |-> "dict", data |-> response.data]
      [] response.status = 429 -> RateLimitHit
      [] OTHER -> None

\* The mutant of Extend: the page takes the place of what was collected.
ExtendReplacing(collected, page_records) == page_records

\* all_data.extend(page_records), line 117
Extend(collected, page_records) == collected \o page_records

\* Lines 108-133, one iteration of `while has_more_data` up to its sleep: a
\* page with records is appended and the next page is due after a delay; a 429
\* leads to the 30 s wait and the same page again, with nothing counted;
\* anything else ends the loop.
FFetch ==
    /\ fpc = "fetch"
    /\ \E response \in FinResponses(page_number) :
           LET fetched == FetchRatio(response)
           IN  IF fetched = RateLimitHit
               THEN /\ fpc' = "wait"
                    /\ frequests' = Min(frequests + 1, MaxCount)
                    /\ UNCHANGED <<page_number, all_data>>
               ELSE IF fetched # None /\ Len(fetched.data) > 0
               THEN /\ all_data' = Extend(all_data, fetched.data)
                    /\ page_number' = page_number + 1
                    /\ frequests' = 0
                    /\ fpc' = "delay"
               ELSE /\ fpc' = "save"
                    /\ frequests' = Min(frequests + 1, MaxCount)
                    /\ UNCHANGED <<page_number, all_data>>
    /\ UNCHANGED <<now, fileVars, listerVars, combineVars, joinVars, ohlcVars,
                   pricesVars, mainVars, stepVars, ratioFile,
                   companyVars>>

\* Line 122: time.sleep(SUCCESS_DELAY_SECONDS), then the loop test.
FDelay ==
    /\ fpc = "delay"
    /\ fpc' = "fetch"
    /\ UNCHANGED <<now, fileVars, listerVars, combineVars, joinVars, ohlcVars,
                   pricesVars, mainVars, stepVars, ratioFile, page_number,
                   all_data, frequests,
                   companyVars>>

\* Lines 127-130: time.sleep(RATE_LIMIT_SLEEP_SECONDS), then the loop test with
\* has_more_data still True.
FWait ==
    /\ fpc = "wait"
    /\ fpc' = "fetch"
    /\ UNCHANGED <<now, fileVars, listerVars, combineVars, joinVars, ohlcVars,
                   pricesVars, mainVars, stepVars, ratioFile, page_number,
                   all_data, frequests,
                   companyVars>>

\* Lines 136-143: the collected records are saved if there are any.
RatioOutput(records) == [totalRecords |-> Len(records), data |-> records]
FSave ==
    /\ fpc = "save"
    /\ fpc' = "done"
    /\ \E io \in IoOutcomes :
           ratioFile' = IF all_data # <<>>
                        THEN save_json(ratioFile, RatioOutput(all_data), io)
                        ELSE ratioFile
    /\ UNCHANGED <<now, fileVars, listerVars, combineVars, joinVars, ohlcVars,
                   pricesVars, mainVars, stepVars, page_number, all_data,
                   frequests,
                   companyVars>>

----------------------------------------------------------------------------
(* scrape_company_profiles.py *)

\* A JSON object on disk or in memory: entries is the function from its keys
Dict(entries) == [t |-> "dict", entries |-> entries]

\* The records of the company list: with a KodeEmiten, or without one
CompanyCodes   == {"AAA", "BBB"}
CompanyRecords == {[KodeEmiten |-> JStr(c)] : c \in CompanyCodes}
                      \cup {[KodeEmiten |-> Missing]}
CompanyLists   == SeqsUpTo(CompanyRecords, MaxRecords)
AllCompanies(list) == [t |-> "dict", data |-> list]

\* What the detail endpoint can answer for a company: nothing usable, or one
\* of two profiles
Profile(name) == [t |-> "dict", name |-> name]
DetailValues == {Profile("fetched"), Profile("fetched_b")}
DetailAnswers == {None} \cup DetailValues

\* load_or_initialize_json, lines 69-79: the default {} for a file that does
\* not exist or that json.loads rejects
load_or_initialize_json(file) ==
    IF file = Absent \/ file = Truncated THEN Dict(<<>>) ELSE file

\* kode_emiten_json[kode_emiten] = details, line 138
WithEntry(dict, key, value) ==
    Dict([k \in DOMAIN dict.entries \cup {key} |->
             IF k = key THEN value ELSE dict.entries[k]])

\* Lines 92-118: the company list loaded, or fetched and saved when the file
\* gives none (the run ends when the fetch fails too), then the details
\* loaded.
CStart ==
    /\ cpc = "start"
    /\ \E answer \in {None} \cup {AllCompanies(l) : l \in CompanyLists},
          io \in IoOutcomes :
          LET loaded == load_or_initialize_json(allCompaniesFile)
              listed == IF loaded = Dict(<<>>) THEN answer ELSE loaded
          IN  /\ allCompaniesFile' =
                     IF loaded = Dict(<<>>) /\ answer # None
                     THEN save_json(allCompaniesFile, answer, io)
                     ELSE allCompaniesFile
              /\ IF listed = None
                 THEN /\ cpc' = "done"
                      /\ UNCHANGED <<companies_to_process, kode_emiten_json, cstored>>
                 ELSE /\ cpc' = "loop"
                      /\ companies_to_process' = listed.data
                      /\ kode_emiten_json' = load_or_initialize_json(detailsFile)
                      /\ cstored' = load_or_initialize_json(detailsFile)
    /\ cindex' = 1
    /\ UNCHANGED <<pipelineVars, detailsFile, cfetches, cruns>>

\* Line 138: the dict with the entry of the company
CompanyUpdate(dict, key, details) == WithEntry(dict, key, details)

\* Lines 121-130: a record with a KodeEmiten that the dict does not hold yet
NeedsFetch(company, dict) ==
    /\ Truthy(company.KodeEmiten)
    /\ company.KodeEmiten.v \notin DOMAIN dict.entries

\* Lines 120-157, one pass of the loop up to its sleep: a record without
\* KodeEmiten or with a key the dict holds is passed over; else the details
\* are fetched, and either set in the dict and the whole dict saved, or the
\* error printed.
CStep ==
    /\ cpc = "loop" /\ cindex <= Len(companies_to_process)
    /\ LET company == companies_to_process[cindex]
       IN  IF ~NeedsFetch(company, kode_emiten_json)
           THEN /\ cindex' = cindex + 1
                /\ UNCHANGED <<cpc, kode_emiten_json, detailsFile, cfetches>>
           ELSE \E details \in DetailAnswers, io \in IoOutcomes :
                   /\ cfetches' = Append(cfetches, [code |-> company.KodeEmiten.v,
                                                    ok   |-> details # None,
                                                    run  |-> cruns])
                   /\ IF details # None
                      THEN /\ kode_emiten_json' =
                                  CompanyUpdate(kode_emiten_json,
                                                company.KodeEmiten.v, details)
                           /\ detailsFile' =
                                  save_json(detailsFile,
                                            CompanyUpdate(kode_emiten_json,
                                                          company.KodeEmiten.v, details),
                                            io)
                           /\ cpc' = "delay"
                      ELSE /\ cpc' = "sleep"
                           /\ UNCHANGED <<kode_emiten_json, detailsFile>>
                   /\ UNCHANGED cindex
    /\ UNCHANGED <<pipelineVars, allCompaniesFile, companies_to_process, cstored, cruns>>

\* Line 145: time.sleep(REQUEST_DELAY_SECONDS), then the next company
CDelay ==
    /\ cpc = "delay"
    /\ cpc' = "loop" /\ cindex' = cindex + 1
    /\ UNCHANGED <<pipelineVars, allCompaniesFile, detailsFile, companies_to_process,
                   kode_emiten_json, cstored, cfetches, cruns>>

\* Lines 150-155: time.sleep(ERROR_SLEEP_SECONDS), then the next company
CSleep ==
    /\ cpc = "sleep"
    /\ cpc' = "loop" /\ cindex' = cindex + 1
    /\ UNCHANGED <<pipelineVars, allCompaniesFile, detailsFile, companies_to_process,
                   kode_emiten_json, cstored, cfetches, cruns>>

\* Line 160: the list is through
CEnd ==
    /\ cpc = "loop" /\ cindex > Len(companies_to_process)
    /\ cpc' = "done"
    /\ UNCHANGED <<pipelineVars, allCompaniesFile, detailsFile, companies_to_process,
                   cindex, kode_emiten_json, cstored, cfetches, cruns>>

\* Lines 163-164: the script is run again, after a run that returned or that
\* was terminated between two passes of its loop.  The files stay; the locals
\* of the old process are gone.
CRerun ==
    /\ cpc \in {"loop", "done"} /\ cruns < MaxRuns
    /\ cruns' = cruns + 1
    /\ cpc' = "start" /\ cindex' = 1
    /\ companies_to_process' = <<>>
    /\ kode_emiten_json' = Dict(<<>>) /\ cstored' = Dict(<<>>)
    /\ UNCHANGED <<pipelineVars, allCompaniesFile, detailsFile, cfetches>>

----------------------------------------------------------------------------
(* Specifications *)

\* One call of scrape_structured_warrants, at any time, over any fetch outcomes.
InitLister ==
    /\ now \in 2..MaxTime
    /\ swFile \in {Absent, StaleSw}
    /\ ohlcFile = Absent /\ pricesFile = Absent /\ combinedFile = Absent
    /\ ListerInit /\ CombineIdle /\ JoinIdle /\ OthersIdle

NextLister == LAttempt \/ LSleep

SpecLister == InitLister /\ [][NextLister]_vars

\* Calls of combine_data over any three input files, each there or not, and
\* any combined file of an earlier run.
Init ==
    /\ now = 2
    /\ swFile \in SwFiles \cup {Absent}
    /\ ohlcFile \in OhlcFiles \cup {Absent}
    /\ pricesFile \in PriceFiles \cup {Absent}
    /\ combinedFile \in {Absent, StaleCombined}
    /\ ListerIdle /\ CombineIdle /\ JoinIdle /\ OthersIdle

Next == CombineData

Spec == Init /\ [][Next]_vars

\* One call of scrape_underlying_ohlc on any list of tickers, over an OHLC
\* file that is not there or is left from an earlier run.
TickerLists == SeqsUpTo({"AAA", "BBB"}, MaxRecords)
InitOhlc ==
    /\ now = 2
    /\ swFile = Absent /\ pricesFile = Absent /\ combinedFile = Absent
    /\ ohlcFile \in {Absent} \cup {f \in OhlcFiles : f.successCount = 1}
    /\ ListerIdle /\ CombineIdle /\ JoinIdle
    /\ PricesIdle /\ MainIdle /\ RatioIdle /\ StepIdle /\ CompanyIdle
    /\ otickers \in TickerLists
    /\ opc = "loop" /\ oacc = OhlcStart /\ otraces = <<>>
    /\ oresult = None /\ osaved = "none"

NextOhlc == OFetch \/ OSave

SpecOhlc == InitOhlc /\ [][NextOhlc]_vars

\* One call of scrape_warrant_prices over any answers of the trading endpoint.
InitPrices ==
    /\ now \in 2..MaxTime
    /\ swFile = Absent /\ ohlcFile = Absent /\ pricesFile = Absent
    /\ combinedFile = Absent
    /\ ListerIdle /\ CombineIdle /\ JoinIdle
    /\ OhlcIdle /\ MainIdle /\ RatioIdle /\ StepIdle /\ CompanyIdle
    /\ ppc = "fetch" /\ pattempt = 0 /\ ptrace = <<>> /\ pdata = None /\ presult = None

NextPrices == PAttempt

SpecPrices == InitPrices /\ [][NextPrices]_vars

\* Calls of combine_data over listings of every shape of ExerciseRatio, each
\* record with OHLC.
InitRatio ==
    /\ now = 2
    /\ swFile \in RatioFiles
    /\ ohlcFile \in {f \in OhlcFiles : "AAA" \in DOMAIN f.data}
    /\ pricesFile \in {Absent} \cup {f \in PriceFiles : f.totalWarrants = 1}
    /\ combinedFile = Absent
    /\ ListerIdle /\ CombineIdle /\ JoinIdle /\ OthersIdle

SpecRatio == InitRatio /\ [][Next]_vars

\* One run of the orchestrator over any data directory an earlier run left.
InitMain ==
    /\ now = 2
    /\ swFile \in {Absent, StaleListing}
    /\ ohlcFile \in {Absent, Truncated}
    /\ pricesFile \in {Absent, Truncated, StalePrices}
    /\ combinedFile \in {Absent, StaleCombined}
    /\ ListerInit /\ CombineIdle /\ JoinIdle
    /\ OhlcIdle /\ PricesIdle /\ RatioIdle /\ StepIdle /\ CompanyIdle
    /\ mpc = "lister" /\ exitCode = -1 /\ mstages = <<>> /\ mlisted = FALSE

NextMain ==
    \/ MLister \/ LSleep \/ MainLoad \/ MOhlc \/ MainPrices \/ MPrices \/ MainCombine

SpecMain == InitMain /\ [][NextMain]_vars

\* One call of scrape_financial_data against an endpoint that answers each
\* request as it likes.  The process keeps running: a step that can be taken
\* is taken.
InitFinancial ==
    /\ now = 2
    /\ swFile = Absent /\ ohlcFile = Absent /\ pricesFile = Absent
    /\ combinedFile = Absent
    /\ ListerIdle /\ CombineIdle /\ JoinIdle
    /\ OhlcIdle /\ PricesIdle /\ MainIdle /\ StepIdle /\ CompanyIdle
    /\ ratioFile \in {Absent, Truncated}
    /\ fpc = "fetch" /\ page_number = 1 /\ all_data = <<>> /\ frequests = 0

NextFinancial == FFetch \/ FDelay \/ FWait \/ FSave

SpecFinancial == InitFinancial /\ [][NextFinancial]_vars /\ WF_vars(NextFinancial)

\* One call of combine_data, statement by statement, over the data
\* directories of Init.
InitSave ==
    /\ now = 2
    /\ swFile \in SwFiles \cup {Absent}
    /\ ohlcFile \in OhlcFiles \cup {Absent}
    /\ pricesFile \in PriceFiles \cup {Absent}
    /\ combinedFile \in {Absent, StaleCombined}
    /\ ListerIdle /\ CombineIdle /\ JoinIdle
    /\ OhlcIdle /\ PricesIdle /\ MainIdle /\ RatioIdle /\ CompanyIdle
    /\ wpc = "start" /\ wacc = LoopStart /\ wtodo = <<>>
    /\ wcombined = None /\ wflushed = 0 /\ wopens = 0

NextSave == WLoad \/ WJoin \/ WStats \/ WOpen \/ WFlush \/ WFail \/ WClose

SpecSave == InitSave /\ [][NextSave]_vars

\* Runs of scrape_company_data over any company list, on disk or fetched,
\* and any details file an earlier run left.  A process that is not
\* terminated takes its next step.
CompanyIdlePipeline ==
    /\ now = 2
    /\ swFile = Absent /\ ohlcFile = Absent /\ pricesFile = Absent
    /\ combinedFile = Absent
    /\ ListerIdle /\ CombineIdle /\ JoinIdle
    /\ OhlcIdle /\ PricesIdle /\ MainIdle /\ RatioIdle /\ StepIdle

InitCompany ==
    /\ CompanyIdlePipeline
    /\ allCompaniesFile \in {Absent} \cup {AllCompanies(l) : l \in CompanyLists}
    /\ detailsFile \in {Absent, Truncated, Dict(<<>>),
                         Dict([k \in {"AAA"} |-> Profile("stored")])}
    /\ cpc = "start" /\ companies_to_process = <<>> /\ cindex = 1
    /\ kode_emiten_json = Dict(<<>>) /\ cstored = Dict(<<>>)
    /\ cfetches = <<>> /\ cruns = 1

NextCompany == CStart \/ CStep \/ CDelay \/ CSleep \/ CEnd \/ CRerun

SpecCompany ==
    InitCompany /\ [][NextCompany]_vars
        /\ WF_vars(CStart \/ CStep \/ CDelay \/ CSleep \/ CEnd)

\* The loop body of combine_data on one record of any shape.
InitJoin ==
    /\ now = 2
    /\ swFile = Absent /\ ohlcFile = Absent /\ pricesFile = Absent
    /\ combinedFile = Absent
    /\ ListerIdle /\ CombineIdle /\ OthersIdle
    /\ jrecord \in JoinRecords
    /\ johlcMap \in JoinOhlcMaps
    /\ jpricesMap \in JoinPricesMaps
    /\ jenriched = None

NextJoin == JoinOne

SpecJoin == InitJoin /\ [][NextJoin]_vars

----------------------------------------------------------------------------
(* Claims *)

\* What a date value names, said without the parser: a string whose text is a
\* date, alone or followed by T00:00:00, names midnight of that day.
NamesDate(v)  == v.t = "str" /\ v.v.date >= 1 /\ v.v.tail \in {"", "T00:00:00"}
MidnightOf(v) == 2 * v.v.date
WindowHolds(r, t) ==
    /\ NamesDate(r.FirstTradingDate) /\ NamesDate(r.LastTradingDate)
    /\ MidnightOf(r.FirstTradingDate) <= t
    /\ t < MidnightOf(r.LastTradingDate)

RECURSIVE Retained(_, _)
Retained(records, t) ==
    IF records = <<>> THEN <<>>
    ELSE IF WindowHolds(Head(records), t)
         THEN <<Head(records)>> \o Retained(Tail(records), t)
         ELSE Retained(Tail(records), t)

\* C1: when scrape_structured_warrants saves a listing, the saved data array is
\* exactly the fetched records with FirstTradingDate <= t < LastTradingDate, in
\* their order, t being the filter time: a record that starts at t is kept, a
\* record that ends at t is not, and nothing outside the window is saved.
C1_ActiveWindowFilter ==
    (lpc = "done" /\ lsaved) =>
        /\ swFile.data = Retained(data.Results, lfilterTime)
        /\ swFile.totalRecords = Len(swFile.data)

\* A saved listing that kept a record starting at t and left out one ending at t.
C1_Witness ==
    /\ lpc = "done" /\ lsaved
    /\ \E i, j \in 1..Len(data.Results) :
          LET a == data.Results[i]
              b == data.Results[j]
          IN  /\ NamesDate(a.FirstTradingDate) /\ MidnightOf(a.FirstTradingDate) = lfilterTime
              /\ \E k \in 1..Len(swFile.data) : swFile.data[k] = a
              /\ NamesDate(b.FirstTradingDate) /\ NamesDate(b.LastTradingDate)
              /\ MidnightOf(b.FirstTradingDate) <= lfilterTime
              /\ MidnightOf(b.LastTradingDate) = lfilterTime
              /\ \A k \in 1..Len(swFile.data) : swFile.data[k] # b

----------------------------------------------------------------------------
(* Claims about one combined record *)

Abs(x) == IF x < 0 THEN -x ELSE x

\* h is n / d rounded to the nearest integer (either neighbour on a tie).
Nearest(h, n, d) == 2 * Abs(n - h * d) <= Abs(d)

UpperOf(c) ==
    CASE c = "c" -> "C" [] c = "a" -> "A" [] c = "l" -> "L"
      [] c = "p" -> "P" [] c = "u" -> "U" [] c = "t" -> "T"
      [] OTHER -> c
SameIgnoringCase(s, text) ==
    /\ Len(s) = Len(text)
    /\ \A i \in 1..Len(s) : s[i] \in {text[i], UpperOf(text[i])}
IsCall(r) == r.SWType.t = "str" /\ SameIgnoringCase(r.SWType.v, CallText)
IsPut(r)  == r.SWType.t = "str" /\ SameIgnoringCase(r.SWType.v, PutText)

\* ExerciseRatio reads "A:B" with A and B decimal numbers
TwoNumbers(r) ==
    /\ r.ExerciseRatio.t = "str"
    /\ Len(Split(r.ExerciseRatio.v)) = 2
    /\ IsFloatText(Split(r.ExerciseRatio.v)[1])
    /\ IsFloatText(Split(r.ExerciseRatio.v)[2])
PartA(r) == FloatValue(Split(r.ExerciseRatio.v)[1])
PartB(r) == FloatValue(Split(r.ExerciseRatio.v)[2])
TwoPositive(r) == TwoNumbers(r) /\ PartA(r).n > 0 /\ PartB(r).n > 0
TwoNonZero(r)  == TwoNumbers(r) /\ PartA(r).n # 0 /\ PartB(r).n # 0

Emitted    == jenriched # None /\ jenriched # Raise
HasMetrics == Emitted /\ jenriched["WarrantMetrics"] # None
Metrics    == jenriched["WarrantMetrics"]
Close      == jenriched["UnderlyingOHLC"].close
Strike     == jrecord.ExercisePrice.v
NoStrike   == jrecord.ExercisePrice \in {Missing, JNull, JNum(0)}

\* C2 as stated: the metrics of an emitted record are null exactly when it has
\* no OHLC, or its ratio is not two positive numbers, or its type is neither
\* call nor put; nothing else makes them null.
C2_Original ==
    Emitted =>
        (jenriched["WarrantMetrics"] = None <=>
            \/ jenriched["UnderlyingOHLC"] = None
            \/ ~TwoPositive(jrecord)
            \/ ~(IsCall(jrecord) \/ IsPut(jrecord)))

\* C2 as amended: the metrics of an emitted record are null exactly when it has
\* no OHLC, or its ExercisePrice is absent, null or 0, or the close is 0, or
\* its ratio is not "A:B" with two numbers, both non-zero, or its type is
\* neither call nor put; a negative A or B does not make them null.
C2_MetricsNullIff ==
    Emitted =>
        (jenriched["WarrantMetrics"] = None <=>
            \/ jenriched["UnderlyingOHLC"] = None
            \/ NoStrike
            \/ Close = 0
            \/ ~TwoNonZero(jrecord)
            \/ ~(IsCall(jrecord) \/ IsPut(jrecord)))

\* A call with OHLC and the ratio 2.0:1.0 whose ExercisePrice is 0: no metrics.
C2_Witness ==
    /\ Emitted /\ jenriched["UnderlyingOHLC"] # None /\ Close = 1200
    /\ jrecord.ExercisePrice = JNum(0)
    /\ jrecord.ExerciseRatio = JStr(T_2p0_1p0) /\ IsCall(jrecord)
    /\ jenriched["WarrantMetrics"] = None

\* C3: for a call (in any letter case) with metrics, intrinsicValue is
\* (close - ExercisePrice) / (A / B) rounded to two decimals, and isInTheMoney
\* holds exactly when close > ExercisePrice.
C3_CallIntrinsic ==
    (HasMetrics /\ IsCall(jrecord)) =>
        /\ Nearest(Metrics.intrinsicValue,
                   100 * (Close - Strike) * PartA(jrecord).d * PartB(jrecord).n,
                   PartA(jrecord).n * PartB(jrecord).d)
        /\ Metrics.isInTheMoney <=> Close > Strike

\* The call of the specification's example, spelled Call: 1000, 2.0:1.0, 1200.
C3_Witness ==
    /\ HasMetrics /\ jrecord.SWType = JStr(<<"C", "a", "l", "l">>)
    /\ Strike = 1000 /\ Close = 1200 /\ jrecord.ExerciseRatio = JStr(T_2p0_1p0)
    /\ Metrics.intrinsicValue = 10000 /\ Metrics.isInTheMoney
    /\ Metrics.exerciseRatioNumeric = 20000

\* C4: for a put (in any letter case) with metrics, intrinsicValue is
\* (ExercisePrice - close) / (A / B) rounded to two decimals, isInTheMoney
\* holds exactly when ExercisePrice > close, and a negative intrinsicValue
\* comes with intrinsicValueAdjusted = 0.
C4_PutIntrinsic ==
    (HasMetrics /\ IsPut(jrecord)) =>
        /\ Nearest(Metrics.intrinsicValue,
                   100 * (Strike - Close) * PartA(jrecord).d * PartB(jrecord).n,
                   PartA(jrecord).n * PartB(jrecord).d)
        /\ Metrics.isInTheMoney <=> Strike > Close
        /\ Metrics.intrinsicValue < 0 => Metrics.intrinsicValueAdjusted = 0

\* The put of the specification's example, spelled PUT: 1000, 1.0:1.0, 1200.
C4_Witness ==
    /\ HasMetrics /\ jrecord.SWType = JStr(<<"P", "U", "T">>)
    /\ Strike = 1000 /\ Close = 1200 /\ jrecord.ExerciseRatio = JStr(T_1p0_1p0)
    /\ Metrics.intrinsicValue = -20000 /\ Metrics.intrinsicValueAdjusted = 0
    /\ ~Metrics.isInTheMoney

\* C5: intrinsicValueAdjusted is max(0, intrinsicValue): never negative, equal
\* to intrinsicValue when that is >= 0, and 0 otherwise.
C5_AdjustedIsFloored ==
    HasMetrics =>
        /\ Metrics.intrinsicValueAdjusted >= 0
        /\ Metrics.intrinsicValue >= 0 =>
               Metrics.intrinsicValueAdjusted = Metrics.intrinsicValue
        /\ Metrics.intrinsicValue < 0 => Metrics.intrinsicValueAdjusted = 0

\* A call below its strike: a negative intrinsicValue floored to 0.
C5_Witness ==
    /\ HasMetrics /\ IsCall(jrecord) /\ Close = 900
    /\ Metrics.intrinsicValue < 0 /\ Metrics.intrinsicValueAdjusted = 0

\* The record with the other type, and its metrics on the same close
Twin(r) == [r EXCEPT !.SWType = IF IsCall(r) THEN JStr(PutText) ELSE JStr(CallText)]
TwinMetrics == calculate_warrant_metrics(Twin(jrecord), JNum(Close))
MoneynessIsCallStyle ==
    /\ Nearest(Metrics.moneynessPercent, 10000 * (Close - Strike), Strike)
    /\ TwinMetrics # None
    /\ TwinMetrics.moneynessPercent = Metrics.moneynessPercent

\* C6 as stated: moneynessPercent is (close - ExercisePrice) / ExercisePrice *
\* 100 for both types, a call and a put with the same inputs get the same
\* value, and for a put it is positive exactly when the put is not in the money.
C6_Original ==
    HasMetrics =>
        /\ MoneynessIsCallStyle
        /\ IsPut(jrecord) => (Metrics.moneynessPercent > 0 <=> ~Metrics.isInTheMoney)

\* C6 as amended: the same, but for a put with a positive ExercisePrice a
\* positive moneynessPercent implies that the put is not in the money and a
\* negative one that it is; at moneynessPercent = 0 the put may be either (it is
\* not in the money when close = ExercisePrice).
C6_MoneynessCallStyle ==
    HasMetrics =>
        /\ MoneynessIsCallStyle
        /\ (IsPut(jrecord) /\ Strike > 0) =>
               /\ Metrics.moneynessPercent > 0 => ~Metrics.isInTheMoney
               /\ Metrics.moneynessPercent < 0 => Metrics.isInTheMoney
               /\ Close = Strike =>
                      Metrics.moneynessPercent = 0 /\ ~Metrics.isInTheMoney

\* A put at its strike: moneynessPercent 0 and not in the money.
C6_Witness ==
    /\ HasMetrics /\ IsPut(jrecord) /\ Close = Strike
    /\ Metrics.moneynessPercent = 0 /\ ~Metrics.isInTheMoney

----------------------------------------------------------------------------
(* Claims about combine_data *)

Produced == combineCalls >= 1 /\ combineResult.t = "dict"
Called   == combineCalls' = combineCalls + 1
WithoutGeneratedAt(r) == IF r.t = "dict" THEN [r EXCEPT !.generatedAt = 0] ELSE r

\* C7: in every output of combine_data, withOHLC + withoutOHLC = totalWarrants
\* = the length of data = the number of listing records, and withPrices <=
\* totalWarrants.
C7_JoinCounts ==
    Produced =>
        /\ combineResult.withOHLC + combineResult.withoutOHLC = combineResult.totalWarrants
        /\ combineResult.totalWarrants = Len(combineResult.data)
        /\ combineResult.totalWarrants = Len(swFile.data)
        /\ combineResult.withPrices <= combineResult.totalWarrants
        /\ combineSaved = "saved" => combinedFile = combineResult

\* An output of two records, one with OHLC and one without, one with a price.
C7_Witness ==
    /\ Produced /\ combineSaved = "saved"
    /\ combineResult.totalWarrants = 2
    /\ combineResult.withOHLC = 1 /\ combineResult.withoutOHLC = 1
    /\ combineResult.withPrices = 1

\* C8: a second call of combine_data on the same three input files returns
\* what the first returned, generatedAt aside, whether or not the first call
\* wrote the combined file.
C8_Idempotent ==
    [][(combineCalls >= 1 /\ Called) =>
           WithoutGeneratedAt(combineResult') = WithoutGeneratedAt(combineResult)]_vars

\* Two calls, each a tick after the one before, the second one saved over the
\* output of the first.
C8_Witness ==
    /\ combineCalls = 2 /\ Produced /\ combineSaved = "saved"
    /\ Len(combineResult.data) = 2
    /\ combineResult.generatedAt = 4 /\ combinedFile = combineResult

\* C9: with the listing and the OHLC file there and no price file, combine_data
\* produces and saves the output, every WarrantPrice is null, withPrices,
\* withVolume and withTrades are 0 and pricesFetchedAt is null.
C9_MissingPricesTolerated ==
    (combineCalls >= 1 /\ pricesFile = Absent /\ swFile # Absent /\ ohlcFile # Absent) =>
        /\ combineResult.t = "dict"
        /\ combineSaved # "none"
        /\ combineSaved = "saved" => combinedFile = combineResult
        /\ Len(combineResult.data) = Len(swFile.data)
        /\ \A i \in 1..Len(combineResult.data) :
               combineResult.data[i]["WarrantPrice"] = None
        /\ combineResult.withPrices = 0
        /\ combineResult.statistics.withVolume = 0
        /\ combineResult.statistics.withTrades = 0
        /\ combineResult.pricesFetchedAt = None

\* A saved output of two records made without a price file.
C9_Witness ==
    /\ combineCalls >= 1 /\ pricesFile = Absent /\ swFile # Absent /\ ohlcFile # Absent
    /\ combineSaved = "saved" /\ combinedFile = combineResult
    /\ Len(combineResult.data) = 2 /\ combineResult.withOHLC = 2

\* C10: a call of combine_data that finds no listing file or no OHLC file
\* returns nothing and leaves the combined file as it was.
C10_MissingInputAborts ==
    [][(Called /\ (swFile = Absent \/ ohlcFile = Absent)) =>
           /\ combineResult' = None
           /\ combineSaved' = "none"
           /\ combinedFile' = combinedFile]_vars

\* A call without the OHLC file that left the combined file of an earlier run.
C10_Witness ==
    /\ combineCalls >= 1 /\ swFile # Absent /\ ohlcFile = Absent
    /\ combineResult = None /\ combinedFile = StaleCombined

----------------------------------------------------------------------------
(* Claims about the orchestrator *)

Exited == mpc = "exit"

\* C11: in a run whose lister got no data, the process ends with a non-zero
\* code right after the lister and none of the OHLC, price and combine stages
\* runs, whatever the data directory held before.
C11_Original ==
    (mpc # "lister" /\ ~mlisted) =>
        /\ Exited /\ exitCode # 0
        /\ mstages = <<>>

\* C12: a run ends with code 0 only if combine_data produced the combined
\* output; a run whose combine_data aborted on a missing listing or OHLC file
\* ends with code 1.
C12_Original ==
    (Exited /\ mstages # <<>> /\ mstages[Len(mstages)] = "combine") =>
        /\ exitCode = 0 => combineResult # None
        /\ (combineResult = None /\ (swFile = Absent \/ ohlcFile = Absent)) => exitCode = 1

----------------------------------------------------------------------------
(* Claims about the retry loops *)

\* The attempts of a trace, and whether each of them failed retryably
Attempts(trace) == Cardinality({i \in 1..Len(trace) : trace[i] # "s"})
AllRetryable(trace) ==
    /\ trace # <<>>
    /\ \A i \in 1..Len(trace) : trace[i] \in {"r", "s"}
ListerReturned == lpc = "done" /\ ltrace # <<>>
PricesReturned == ppc = "done" /\ ptrace # <<>>

\* C13: with R = MAX_RETRIES = 3, the lister's loop, fetch_data of the price
\* scraper and fetch_ohlc each make exactly R + 1 attempts when every attempt
\* fails retryably, never more than R + 1, and then yield no data.
C13_Original ==
    /\ Attempts(ltrace) <= MAX_RETRIES + 1
    /\ Attempts(ptrace) <= MAX_RETRIES + 1
    /\ \A i \in 1..Len(otraces) : Attempts(otraces[i]) <= MAX_RETRIES + 1
    /\ (ListerReturned /\ AllRetryable(ltrace)) =>
           Attempts(ltrace) = MAX_RETRIES + 1 /\ ~HasResults(data)
    /\ (PricesReturned /\ AllRetryable(ptrace)) =>
           Attempts(ptrace) = MAX_RETRIES + 1 /\ presult = None
    /\ \A i \in 1..Len(otraces) :
           AllRetryable(otraces[i]) =>
               /\ Attempts(otraces[i]) = MAX_RETRIES + 1
               /\ otickers[i] \notin DOMAIN oacc.ohlc_map

----------------------------------------------------------------------------
(* Claims about scrape_underlying_ohlc *)

\* The tickers done whose fetch_ohlc ended with a bar
Succeeded(trace) == trace[Len(trace)] = "a"
SucceededAt == {i \in 1..Len(otraces) : Succeeded(otraces[i])}

\* C14: scrape_underlying_ohlc goes through every ticker of its list however
\* the earlier ones ended; the result's data holds exactly the tickers whose
\* fetch succeeded, successCount + failCount = totalTickers = the length of
\* the list, and the result is saved even when every ticker failed.
C14_OhlcBatchCounts ==
    /\ opc = "loop" =>
           oacc.success_count + oacc.fail_count = Len(otraces)
    /\ (opc = "done" /\ osaved # "none") =>
           /\ Len(otraces) = Len(otickers)
           /\ DOMAIN oresult.data = {otickers[i] : i \in SucceededAt}
           /\ oresult.successCount = Cardinality(SucceededAt)
           /\ oresult.successCount + oresult.failCount = oresult.totalTickers
           /\ oresult.totalTickers = Len(otickers)
           /\ osaved = "saved" => ohlcFile = oresult

\* Two tickers: the first raised on every attempt, the second had no history;
\* the result holds neither and is saved.
C14_Witness ==
    /\ opc = "done" /\ osaved = "saved" /\ otickers = <<"AAA", "BBB">>
    /\ otraces = << <<"r", "s", "r", "s", "r">>, <<"f">> >>
    /\ oresult.failCount = 2 /\ DOMAIN oresult.data = {}
    /\ ohlcFile = oresult

----------------------------------------------------------------------------
(* Claims about scrape_warrant_prices *)

\* The trading lists whose reshaping is result
CodesOf(list) == {list[i].KodeSW : i \in 1..Len(list)}
LastWith(list, code) ==
    list[CHOOSE i \in 1..Len(list) :
             /\ list[i].KodeSW = code
             /\ \A j \in (i + 1)..Len(list) : list[j].KodeSW # code]
SameFields(entry, w) ==
    /\ entry.kodeSW = w.KodeSW /\ entry.kodeEmiten = w.KodeEmiten
    /\ entry.open = w.Open /\ entry.high = w.High /\ entry.low = w.Low
    /\ entry.last = w.Last /\ entry.change = w.Change
    /\ entry.percentChange = w.PercentChange /\ entry.bid = w.Bid
    /\ entry.offer = w.Offer /\ entry.volume = w.Volume /\ entry.value = w.Value
    /\ entry.tradeDate = w.TradeDate
Reshapes(result, list) ==
    /\ DOMAIN result.data = CodesOf(list)
    /\ \A code \in CodesOf(list) : SameFields(result.data[code], LastWith(list, code))
    /\ result.totalWarrants = Cardinality(CodesOf(list))
    /\ result.activeWarrants =
           Cardinality({code \in CodesOf(list) :
                           LastWith(list, code).Volume > 0 \/ LastWith(list, code).Last > 0})
    /\ result.activeWarrants <= result.totalWarrants

\* C15: the result of scrape_warrant_prices is the reshaping of the trading
\* list the endpoint returned: one entry per distinct KodeSW with the fields of
\* the last element of that code, entries with volume 0 and last 0 kept,
\* totalWarrants the number of entries and activeWarrants the number of
\* entries with volume > 0 or last > 0.
C15_PricesReshaped ==
    (ppc = "done" /\ Truthy(pdata)) =>
        /\ presult # None
        /\ Reshapes(presult, pdata.Results)

\* Two elements of the code W1, the first traded and the second not: the map
\* holds the second, counted and not active.
C15_Witness ==
    /\ ppc = "done" /\ presult # None
    /\ pdata.Results = <<TradingRec("W1", 10, 0), TradingRec("W1", 0, 0)>>
    /\ DOMAIN presult.data = {"W1"}
    /\ presult.data["W1"].last = 0 /\ presult.data["W1"].volume = 0
    /\ presult.totalWarrants = 1 /\ presult.activeWarrants = 0

----------------------------------------------------------------------------
(* Claims about malformed records *)

\* C16: a fetched record whose FirstTradingDate or LastTradingDate cannot be
\* parsed (absent, null, no string, or no date) is left out without aborting:
\* the lister still filters the other records and saves the listing.
C16_Original ==
    (lpc \in {"done", "crashed"} /\ HasResults(data)) =>
        /\ lpc = "done"
        /\ lfilterTime # 0
        /\ lsaved => swFile.data = Retained(data.Results, lfilterTime)

\* ExerciseRatio absent, null, not "A:B", with a part that is no number, or
\* with A = 0 or B = 0
BadRatio(r) == ~TwoNonZero(r)

\* C17: a record whose ExerciseRatio is malformed or zero gets WarrantMetrics
\* null with its UnderlyingOHLC attached, the other records get their metrics,
\* and combine_data returns and saves the output: no such value makes it raise.
C17_BadRatioNullMetrics ==
    combineCalls >= 1 =>
        /\ combineResult.t = "dict"
        /\ combineSaved # "none"
        /\ combineSaved = "saved" => combinedFile = combineResult
        /\ Len(combineResult.data) = Len(swFile.data)
        /\ \A i \in 1..Len(swFile.data) :
               /\ combineResult.data[i]["UnderlyingOHLC"] # None
               /\ BadRatio(swFile.data[i]) <=> combineResult.data[i]["WarrantMetrics"] = None

\* A record with the ratio 1:0 before a well-formed one: null metrics and OHLC
\* for the first, metrics for the second, the output saved.
C17_Witness ==
    /\ combineCalls >= 1 /\ combineSaved = "saved" /\ Len(swFile.data) = 2
    /\ swFile.data[1].ExerciseRatio = JStr(T_1_0)
    /\ swFile.data[2].ExerciseRatio = JStr(T_2p0_1p0)
    /\ combineResult.data[1]["WarrantMetrics"] = None
    /\ combineResult.data[1]["UnderlyingOHLC"].close = 1200
    /\ combineResult.data[2]["WarrantMetrics"] # None
    /\ combinedFile = combineResult

----------------------------------------------------------------------------
(* Claims about the delay between attempts *)

\* No attempt of the trace follows a failed attempt directly.
SleepsBetween(trace) ==
    \A i \in 1..(Len(trace) - 1) : trace[i] = "r" => trace[i + 1] = "s"

\* C18: in the lister loop and in fetch_data of scrape_warrant_prices, an
\* attempt that ends in 429, 503 or an empty result and is followed by another
\* attempt is separated from it by a sleep.
C18_Original == SleepsBetween(ltrace) /\ SleepsBetween(ptrace)

----------------------------------------------------------------------------
(* Claims about scrape_financial_data *)

\* C19: scrape_financial_data gives up after a bounded number of attempts:
\* whatever the endpoint answers, a 429 on every request included, the
\* pagination loop comes to its end.
C19_Original == <>(fpc = "done")

----------------------------------------------------------------------------
(* Claims about the write of the combined file *)

\* The combined file holds the beginning of a document with some, not all, of
\* the records of this call.
PartialArray ==
    /\ wopens >= 1 /\ combinedFile = Truncated
    /\ 0 < wflushed /\ wflushed < Len(wcombined.data)

\* C20: within one call of combine_data the combined file is written at most
\* once, only after every listing record is joined and the statistics are
\* computed, and in no state does it hold a partial record array of this call.
C20_Original ==
    /\ wopens <= 1
    /\ wopens = 1 => (wtodo = <<>> /\ wcombined.t = "dict")
    /\ ~PartialArray

----------------------------------------------------------------------------
(* Claims about the order of the stages *)

\* main enters stage s with this step.
StageStarts(s) ==
    /\ Len(mstages') = Len(mstages) + 1
    /\ mstages'[Len(mstages')] = s

\* The Underlying values of the listing file
Underlyings(sw_data) ==
    {sw_data.data[i]["Underlying"].v : i \in 1..Len(sw_data.data)}
NoDuplicates(list) ==
    \A i, j \in 1..Len(list) : list[i] = list[j] => i = j

\* C21: a run of main passes through its stages in the order listing, OHLC,
\* prices, combine: a stage starts only when the one before it has returned,
\* a stage's work is done only while main is in that stage, combine_data runs
\* only after the OHLC and the price stage, and the OHLC stage gets the
\* Underlying values of the listing file without duplicates, so that it
\* fetches each of them once.
C21_StagesInOrder ==
    /\ [][/\ StageStarts("ohlc") =>
              /\ mpc = "lister" /\ lpc = "done" /\ mstages = <<>>
              /\ NoDuplicates(otickers')
              /\ {otickers'[i] : i \in 1..Len(otickers')} = Underlyings(swFile)
          /\ StageStarts("prices") =>
              (mpc = "ohlc" /\ opc = "done" /\ mstages = <<"ohlc">>)
          /\ StageStarts("combine") =>
              (mpc = "prices" /\ ppc = "done" /\ mstages = <<"ohlc", "prices">>)
          /\ combineCalls' # combineCalls => StageStarts("combine")
          /\ (ltrace' # ltrace /\ ltrace' # <<>>) => (mpc = "lister" /\ mstages = <<>>)
          /\ (otraces' # otraces /\ otraces' # <<>>) => (mpc = "ohlc" /\ mpc' = "ohlc")
          /\ (ptrace' # ptrace /\ ptrace' # <<>>) => (mpc = "prices" /\ mpc' = "prices")
          /\ mstages' # mstages =>
              \E s \in {"ohlc", "prices", "combine"} : StageStarts(s)]_vars
    /\ [](Len(otraces) <= Len(otickers) /\ NoDuplicates(otickers))

\* A whole run over a listing of two warrants on the same underlying: the OHLC
\* stage had one ticker, and the three stages ran in order.
C21_Witness ==
    /\ mpc = "exit" /\ mstages = <<"ohlc", "prices", "combine">>
    /\ mlisted /\ Len(swFile.data) = 2
    /\ Underlyings(swFile) = {"AAA"}
    /\ ohlcFile # Absent /\ ohlcFile # Truncated /\ ohlcFile.totalTickers = 1

----------------------------------------------------------------------------
(* Claims about the artifacts a run joins *)

\* The run ended with a combined output written by its combine stage.
WroteCombined == Exited /\ combineSaved = "saved" /\ combinedFile = combineResult

\* C22: in a run that writes a combined output, the listing, the OHLC bars and
\* the prices joined into it were produced by the stages of that run: nothing
\* of a structured_warrants.json or warrant_prices.json left by an earlier run
\* is in it, also when the listing or the price stage of the run failed.
C22_Original ==
    WroteCombined =>
        /\ mlisted
        /\ combineResult.warrantFilteredDate # StaleListing.filteredDate
        /\ combineResult.pricesFetchedAt # JNum(StalePrices.fetchedAt)
        /\ \A i \in 1..Len(combineResult.data) :
               combineResult.data[i]["WarrantPrice"] # PriceSubset(StalePrices.data["W1"])

----------------------------------------------------------------------------
(* Claims about a lister that got nothing *)

\* C23: a call of scrape_structured_warrants that gets no data, every attempt
\* rate-limited, failed or answered with an empty Results list, writes
\* nothing: each of its steps leaves structured_warrants.json as it was, and
\* the call ends without a save.
C23_NoDataNoWrite ==
    [][~HasResults(data') => (swFile' = swFile /\ lsaved' = FALSE)]_vars

\* The retries are used up over a listing file of an earlier run, which is
\* still there.
C23_Witness ==
    /\ lpc = "done" /\ retries = MAX_RETRIES + 1 /\ ~HasResults(data)
    /\ Attempts(ltrace) = MAX_RETRIES + 1 /\ AllRetryable(ltrace)
    /\ swFile = StaleSw /\ ~lsaved

----------------------------------------------------------------------------
(* Claims about what combine_data keeps of the listing *)

\* The output record is the listing record with the three keys added and
\* nothing else changed.
Widens(out, record) ==
    /\ DOMAIN out = DOMAIN record \cup AddedKeys
    /\ \A k \in DOMAIN record \ AddedKeys : out[k] = record[k]

\* C24: combine_data gives one output record per listing record, in the
\* listing's order, each with every field of its listing record unchanged and
\* only UnderlyingOHLC, WarrantMetrics and WarrantPrice added, and a call
\* leaves the three input files as they were.
C24_ListingKept ==
    /\ [](Produced =>
            /\ Len(combineResult.data) = Len(swFile.data)
            /\ \A i \in 1..Len(swFile.data) :
                   Widens(combineResult.data[i], swFile.data[i]))
    /\ [][Called => UNCHANGED <<swFile, ohlcFile, pricesFile>>]_vars

\* Two different warrants, the second without OHLC: the output holds them in
\* the listing's order.
C24_Witness ==
    /\ Produced /\ Len(swFile.data) = 2
    /\ swFile.data[1] = SwRecord("W1", "AAA", <<"C", "a", "l", "l">>, T_2p0_1p0)
    /\ swFile.data[2] = SwRecord("W2", "BBB", <<"p", "u", "t">>, T_x_1)
    /\ combineResult.data[1]["KodeSW"] = JStr("W1")
    /\ combineResult.data[2]["KodeSW"] = JStr("W2")
    /\ combineResult.data[1]["UnderlyingOHLC"] # None
    /\ combineResult.data[2]["UnderlyingOHLC"] = None
    /\ combineResult.data[2]["ExerciseRatio"] = JStr(T_x_1)

----------------------------------------------------------------------------
(* Claims about the statistics *)

\* The positions of the output records with metrics, and of those at the
\* money: with OHLC whose close is the ExercisePrice
WithMetrics(out) == {i \in 1..Len(out.data) : out.data[i]["WarrantMetrics"] # None}
AtTheMoney(out) ==
    {i \in WithMetrics(out) :
        JNum(out.data[i]["UnderlyingOHLC"].close) = out.data[i]["ExercisePrice"]}

\* C25: in every combined output inTheMoney + outOfTheMoney is the number of
\* records with metrics, which is at most withOHLC; a record without metrics
\* is in neither count, and a warrant whose close is its ExercisePrice is in
\* outOfTheMoney.
C25_MoneynessCounts ==
    Produced =>
        /\ combineResult.statistics.inTheMoney + combineResult.statistics.outOfTheMoney
               = Cardinality(WithMetrics(combineResult))
        /\ Cardinality(WithMetrics(combineResult)) <= combineResult.withOHLC
        /\ combineResult.statistics.inTheMoney =
               Cardinality({i \in WithMetrics(combineResult) :
                               combineResult.data[i]["WarrantMetrics"].isInTheMoney})
        /\ \A i \in AtTheMoney(combineResult) :
               ~combineResult.data[i]["WarrantMetrics"].isInTheMoney
        /\ combineResult.statistics.outOfTheMoney >= Cardinality(AtTheMoney(combineResult))

\* A put at the money and a warrant with OHLC but a malformed ratio: one out
\* of the money, none in the money, two with OHLC.
C25_Witness ==
    /\ Produced /\ Len(combineResult.data) = 2
    /\ AtTheMoney(combineResult) = {1}
    /\ WithMetrics(combineResult) = {1}
    /\ combineResult.withOHLC = 2
    /\ combineResult.statistics.inTheMoney = 0
    /\ combineResult.statistics.outOfTheMoney = 1

\* The positions of the output records with a price
WithPrice(out) == {i \in 1..Len(out.data) : out.data[i]["WarrantPrice"] # None}

\* C26: in every combined output withVolume and withTrades count records with
\* a WarrantPrice only (volume > 0, last > 0) and so are at most withPrices;
\* callWarrants and putWarrants count the listing's calls and puts whether or
\* not they have OHLC or metrics, and together are at most totalWarrants.
C26_PriceAndTypeCounts ==
    Produced =>
        /\ combineResult.withPrices = Cardinality(WithPrice(combineResult))
        /\ combineResult.statistics.withVolume =
               Cardinality({i \in WithPrice(combineResult) :
                               combineResult.data[i]["WarrantPrice"].volume > 0})
        /\ combineResult.statistics.withTrades =
               Cardinality({i \in WithPrice(combineResult) :
                               combineResult.data[i]["WarrantPrice"].last > 0})
        /\ combineResult.statistics.withVolume <= combineResult.withPrices
        /\ combineResult.statistics.withTrades <= combineResult.withPrices
        /\ combineResult.statistics.callWarrants =
               Cardinality({i \in 1..Len(swFile.data) : IsCall(swFile.data[i])})
        /\ combineResult.statistics.putWarrants =
               Cardinality({i \in 1..Len(swFile.data) : IsPut(swFile.data[i])})
        /\ combineResult.statistics.callWarrants + combineResult.statistics.putWarrants
               <= combineResult.totalWarrants

\* A call and a put without OHLC, both priced, one with volume and the other
\* with a last price: both are counted by type.
C26_Witness ==
    /\ Produced /\ combineResult.totalWarrants = 2
    /\ combineResult.withOHLC = 0 /\ WithMetrics(combineResult) = {}
    /\ combineResult.withPrices = 2
    /\ combineResult.statistics.withVolume = 1
    /\ combineResult.statistics.withTrades = 1
    /\ combineResult.statistics.callWarrants = 1
    /\ combineResult.statistics.putWarrants = 1

----------------------------------------------------------------------------
(* Claims about scrape_company_data *)

\* The file holds every entry of the dict, with its value.
FileHolds(file, dict) ==
    \A k \in DOMAIN dict.entries :
        /\ file.t = "dict"
        /\ k \in DOMAIN file.entries
        /\ file.entries[k] = dict.entries[k]

\* The detail fetches of the run that is going on
FetchesOfRun == {i \in 1..Len(cfetches) : cfetches[i].run = cruns}

\* The run merges by key: what it loaded is still in its dict, it fetched no
\* company whose key it loaded, no more companies than the list has records,
\* and none again after it got its details.
MergesByKey ==
    cpc # "start" =>
        /\ \A k \in DOMAIN cstored.entries :
               /\ k \in DOMAIN kode_emiten_json.entries
               /\ kode_emiten_json.entries[k] = cstored.entries[k]
        /\ \A i \in FetchesOfRun : cfetches[i].code \notin DOMAIN cstored.entries
        /\ Cardinality(FetchesOfRun) <= Len(companies_to_process)
        /\ \A i, j \in FetchesOfRun :
               (i < j /\ cfetches[i].code = cfetches[j].code) => ~cfetches[i].ok

\* C27: scrape_company_data merges by key without loss: every entry that
\* companyDetailsByKodeEmiten.json held when the run started is still in it
\* with the same value after any number of passes of the loop, a company
\* whose key is there is not fetched, each company of the list is fetched at
\* most once in a run, and the loop comes to its end.
C27_Original ==
    /\ [](MergesByKey /\ (cpc # "start" => FileHolds(detailsFile, cstored)))
    /\ <>(cpc = "done")

\* No company is fetched again, in this run or a later one, once its details
\* came.
NoRefetch ==
    \A i, j \in 1..Len(cfetches) :
        (i < j /\ cfetches[i].code = cfetches[j].code) => ~cfetches[i].ok

\* C28: scrape_company_data persists incrementally: between two passes of the
\* loop companyDetailsByKodeEmiten.json holds the details of every company
\* fetched so far in the run and all that were stored before, so that a run
\* started after the process was terminated there fetches only companies
\* whose details have not come yet.
C28_Original ==
    /\ cpc = "loop" => FileHolds(detailsFile, kode_emiten_json)
    /\ NoRefetch

----------------------------------------------------------------------------
(* Claims about the pages of scrape_financial_data *)

\* The loop of scrape_financial_data is over.
Collected == fpc \in {"save", "done"}

\* C29: scrape_financial_data asks for the pages 1, 2, 3, ... in order and
\* appends the records of each page it got once: the page number goes up by
\* one, and only in the step that appends a non-empty page; a 429 leaves the
\* page number and the records as they are and the same page is asked for
\* again; the first empty or failed page ends the collection; and what is
\* saved carries totalRecords = the length of its data, the records collected.
C29_PagesInOrder ==
    /\ [][/\ page_number' \in {page_number, page_number + 1}
          /\ page_number' = page_number + 1 =>
              /\ fpc = "fetch" /\ fpc' = "delay"
              /\ \E p \in FinPages : all_data' = all_data \o p
          /\ page_number' = page_number => all_data' = all_data
          /\ fpc' = "wait" => (fpc = "fetch" /\ page_number' = page_number)
          /\ fpc \in {"wait", "delay"} => fpc' = "fetch"
          /\ Collected => Collected'
          /\ (~Collected /\ Collected') =>
              (fpc = "fetch" /\ frequests' = Min(frequests + 1, MaxCount))
          /\ ratioFile' # ratioFile =>
              /\ fpc = "save" /\ all_data # <<>>
              /\ ratioFile' \in {RatioOutput(all_data), Truncated}]_vars
    /\ [](/\ page_number >= 1
          /\ ratioFile \notin {Absent, Truncated} =>
                 ratioFile.totalRecords = Len(ratioFile.data))

\* Two pages collected, of two records and of one; the third page was answered
\* with 429 and then with nothing; the three records are saved.
C29_Witness ==
    /\ fpc = "done" /\ page_number = 3 /\ frequests = 2
    /\ Len(all_data) = 3 /\ all_data[1] # all_data[2]
    /\ ratioFile = RatioOutput(all_data) /\ ratioFile.totalRecords = 3

============================================================================
